---------------------------- MODULE Spec2Model ----------------------------
(***************************************************************************)
(* Model of the analytics pipeline: the aggregation store of               *)
(* pkg/analytics/service.go (Service.ProcessEvent, Service.GetSnapshot and *)
(* their helpers, guarded by RealTimeAnalytics.Mu) and the broadcast hub   *)
(* of pkg/websocket/hub.go (Hub.Run, the Broadcast* wrappers and the       *)
(* per-client read and write pumps), and the consumer loop of               *)
(* pkg/kafka/consumer.go (Consumer.ConsumeEvents).                         *)
(*                                                                         *)
(* Time is counted in minutes.  A Go map is a function whose DOMAIN is the *)
(* set of keys present.  A float64 is a natural number or Inf; an addition *)
(* whose result exceeds MaxFloat64 yields Inf.                             *)
(***************************************************************************)
EXTENDS Integers, Sequences, FiniteSets, TLC

VARIABLES
    now,        \* the wall clock, in minutes
    analytics,  \* Service.analytics: the RealTimeAnalytics record
    mu,         \* analytics.Mu: [w |-> holder of the write lock, r |-> read holders,
                \* q, a, b |-> the callers that wait, see RWMutex]
    wpc,        \* position of each ProcessEvent caller
    warg,       \* the event each ProcessEvent caller is ingesting
    rpc,        \* position of each GetSnapshot caller
    snap,       \* the snapshot each GetSnapshot caller got last
    snapAt,     \* history: how many ingests had completed when it was rendered
    ingestLog,  \* history: the events ingested, in lock-acquisition order
    hist,       \* history: the store after 0, 1, 2, ... completed ingests
    clients,    \* Hub.clients: the registered clients
    send,       \* Client.send of each client: the payloads buffered in the channel
    closes,     \* how many times close(client.send) ran for each client
    broadcast,  \* Hub.broadcast: the payloads buffered in the channel
    bpc,        \* position of each caller of BroadcastEvent / BroadcastAlert
    barg,       \* the payload that caller marshalled
    wp,         \* position of each client's writePump
    wbuf,       \* the payloads writePump has put in the message it is writing
    rp,         \* position of each client's readPump
    conn,       \* Client.conn of each client: "open" or "closed"
    written,    \* history: the messages written to each connection
    enq,        \* history: the payloads the hub placed on each client's queue
    dequeued,   \* history: how many payloads the hub took off Hub.broadcast
    removedBy,  \* history: the case of Hub.Run that removed each client
    nextId,     \* history: the number of the next payload marshalled
    ticked,     \* history: the last firing of the hub's ticker: the payload it
                \* marshalled and the clients registered at that moment
    counter,    \* Hub.mu and the callers of GetClientCount: mu, their position,
                \* the count each got, whether the set changed under its read
    consumer,   \* Consumer.ConsumeEvents: its position, message and history
    alerts,     \* Service.alerts: the alert configurations
    svc,        \* Service.mu and the callers of CheckAlerts and AddAlert: mu, the
                \* position of each caller, the snapshot CheckAlerts holds
    checked,    \* history: the last CheckAlerts call, its input and its result, and
                \* the call before it if nothing was ingested or added between them
    handler,    \* Server.handleEvent: the position and event of each request being
                \* served, the broker's topic, the responses and the order of the calls
    wire        \* the last record encoded: the record, its JSON value, the record
                \* decoded from the value

storeVars == <<now, analytics, mu, wpc, warg, rpc, snap, snapAt, ingestLog, hist>>

hubVars == <<clients, send, closes, broadcast, bpc, barg, wp, wbuf, rp, conn,
             written, enq, dequeued, removedBy, nextId, ticked, counter>>

alertVars == <<alerts, svc, checked>>

vars == <<now, analytics, mu, wpc, warg, rpc, snap, snapAt, ingestLog, hist,
          clients, send, closes, broadcast, bpc, barg, wp, wbuf, rp, conn,
          written, enq, dequeued, removedBy, nextId, ticked, counter, consumer,
          alerts, svc, checked, wire, handler>>

-----------------------------------------------------------------------------
(* Bounds of the model *)

\* the clock value at construction (50 h 10 min after the epoch)
StartClock == 3010

\* number of ProcessEvent calls explored under concurrent callers
MaxIngest == 2

\* number of ProcessEvent calls explored by the single-caller buffer run
MaxIngestBuf == 150

\* how far the clock may advance past StartClock, in minutes
MaxClockAdvance == 6

\* number of ProcessEvent calls of the single-caller load-time run
MaxIngestLoad == 1700

\* number of ProcessEvent calls of the cleanup runs
MaxIngestCleanup == 3

\* how far the clock of the cleanup runs may advance, in minutes (48 h 20 min)
MaxAdvanceCleanup == 2900

\* number of messages the consumer fetches
MaxMessages == 3

\* number of ProcessEvent calls of the optional-field runs
MaxIngestFields == 3

\* number of ProcessEvent calls of the alert runs
MaxIngestAlerts == 3

\* number of alert configurations added
MaxRules == 2

\* number of distinct pages of the page runs
MaxPages == 11

\* number of ProcessEvent calls of the visitor runs
MaxIngestUsers == 3

\* number of ProcessEvent calls of the render runs
MaxIngestRender == 3

\* minutes the clock advances in the runs that repeat the alert evaluation
MaxAdvanceRefire == 60

\* number of payloads marshalled in the runs with failing connections
MaxFailEvents == 1

\* largest value of the integer fields of the records that are encoded
MaxFieldValue == 2

\* payloads the ticker marshals in a run of SpecOrder
MaxOrderTicks == 2

\* calls of ProcessEvent and of AddAlert in a run of SpecLocks
MaxIngestLocks == 2

MaxAddLocks == 1

\* calls of ProcessEvent and minutes the clock advances in a run of SpecPeriod
MaxIngestPeriod == 3

MaxAdvancePeriod == 12

\* calls of ProcessEvent in a run of SpecAgents
MaxIngestAgents == 2

\* calls of ProcessEvent and minutes the clock advances in a run of SpecHours
MaxIngestHours == 3

MaxAdvanceHours == 100

\* configurations added in a run of SpecTotal
MaxTotalRules == 3

\* requests that reach Server.handleEvent in a run of SpecHandler
MaxRequests == 4

\* largest finite float64 of the model
MaxFloat64 == 9000

\* number of ProcessEvent calls explored next to the hub
MaxIngestHub == 2

\* number of payloads marshalled for the hub
MaxPayloads == 3

\* number of events broadcast to the two clients
MaxHubEvents == 2

\* capacity of Client.send in the model (256 in hub.go 211)
SendCap == 2

\* capacity of Hub.broadcast in the model (256 in hub.go 61)
BroadcastCap == 2

\* the float64 +Inf: every float64 operation saturates at it
Inf == MaxFloat64 + 1

-----------------------------------------------------------------------------
(* Program constants *)

RecentCap == 100

maxRetries == 3

LoadTimesCap == 1000

CleanupEvery == 5

SessionTTL == 30

HourlyKeep == 2880

Hour == 60

TopN == 10

RecentShown == 20

SlowThreshold == 3000

-----------------------------------------------------------------------------
(* Go values *)

Min(a, b) == IF a < b THEN a ELSE b

\* time.Time.Truncate(time.Hour) on a non-negative clock
TruncateHour(t) == t - (t % Hour)

\* m[k]++ on a Go map
MapInc(m, k) ==
    IF k \in DOMAIN m THEN [m EXCEPT ![k] = @ + 1] ELSE m @@ (k :> 1)

\* m[k] = v on a Go map
MapSet(m, k, v) ==
    IF k \in DOMAIN m THEN [m EXCEPT ![k] = v] ELSE m @@ (k :> v)

\* delete(m, k) for every k of ks
MapDelete(m, ks) == [k \in (DOMAIN m) \ ks |-> m[k]]

\* float64 addition: a sum beyond the largest finite value is +Inf
FloatAdd(a, b) == IF a + b > MaxFloat64 THEN Inf ELSE a + b

\* float64 division by a positive count (rounded down to the model's grid)
FloatDiv(a, n) == IF a >= Inf THEN Inf ELSE a \div n

RECURSIVE FloatSum(_)
FloatSum(s) == IF s = <<>> THEN 0 ELSE FloatAdd(FloatSum(Tail(s)), Head(s))

EmptyMap == <<>>

-----------------------------------------------------------------------------
(* models.AnalyticsEvent *)

PageView == "page_view"
Click == "click"
Session == "session"
UserEvent == "user_event"

\* An event.  A string field "" is absent.  URL is [Host, Path].  Referrer
\* is [Raw, ParseOK, Host]: the raw string, whether url.Parse accepts it and
\* the labels of the host it finds.  UserAgent is the sequence of the words
\* of the agent string, IPAddress the sequence of the octets of the address.
\* Metadata maps a key to [num |-> n] (a JSON number) or [str |-> s].
AnalyticsEvent(id, type, ts, user, session, url, ref, agent, ip, meta) ==
    [ID |-> id, Type |-> type, Timestamp |-> ts, UserID |-> user,
     SessionID |-> session, URL |-> url, Referrer |-> ref,
     UserAgent |-> agent, IPAddress |-> ip, Metadata |-> meta]

Url(host, path) == [Host |-> host, Path |-> path]

NoRef == [Raw |-> "", ParseOK |-> TRUE, Host |-> <<>>]

Ref(raw, ok, host) == [Raw |-> raw, ParseOK |-> ok, Host |-> host]

NoMeta == <<>>

\* strings.ToLower on one word of an agent string
ToLower(w) ==
    CASE w = "Chrome" -> "chrome"
      [] w = "Firefox" -> "firefox"
      [] w = "Safari" -> "safari"
      [] w = "Edge" -> "edge"
      [] w = "Mobile" -> "mobile"
      [] w = "iPhone" -> "iphone"
      [] w = "Android" -> "android"
      [] w = "Tablet" -> "tablet"
      [] w = "iPad" -> "ipad"
      [] w = "Mozilla" -> "mozilla"
      [] OTHER -> w

\* strings.Contains(strings.ToLower(userAgent), word)
Contains(userAgent, word) ==
    \E i \in DOMAIN userAgent : ToLower(userAgent[i]) = word

-----------------------------------------------------------------------------
(* models.RealTimeAnalytics *)

NewRealTimeAnalytics(t) ==
    [Events |-> <<>>, PageViews |-> EmptyMap, UniqueUsers |-> {},
     SessionsActive |-> EmptyMap, EventsByType |-> EmptyMap,
     HourlyData |-> EmptyMap, LoadTimes |-> <<>>,
     TrafficSources |-> EmptyMap, DeviceTypes |-> EmptyMap,
     BrowserTypes |-> EmptyMap, PageVisitors |-> EmptyMap,
     LastCleanup |-> t, StartTime |-> t, TotalEvents |-> 0]
-----------------------------------------------------------------------------
(* Service.ProcessEvent, in the order of its statements *)

\* AppendAndCount that counts a type only once its key is in the map
AppendAndCount_SkipNewType(a, e) ==
    LET appended == Append(a.Events, e)
        events == IF Len(appended) > RecentCap THEN Tail(appended) ELSE appended
    IN [a EXCEPT !.Events = events,
                 !.TotalEvents = a.TotalEvents + 1,
                 !.EventsByType = IF e.Type \in DOMAIN a.EventsByType
                                  THEN MapInc(a.EventsByType, e.Type)
                                  ELSE a.EventsByType]

\* AppendAndCount that drops the newest record of a full buffer, not the oldest
AppendAndCount_EvictNewest(a, e) ==
    LET appended == Append(a.Events, e)
        events == IF Len(appended) > RecentCap
                  THEN SubSeq(appended, 1, RecentCap) ELSE appended
    IN [a EXCEPT !.Events = events,
                 !.TotalEvents = a.TotalEvents + 1,
                 !.EventsByType = MapInc(a.EventsByType, e.Type)]

\* service.go 35-45: the recent-events buffer, the total and the per-type count
AppendAndCount(a, e) ==
    LET appended == Append(a.Events, e)
        events == IF Len(appended) > RecentCap THEN Tail(appended) ELSE appended
    IN [a EXCEPT !.Events = events,
                 !.TotalEvents = a.TotalEvents + 1,
                 !.EventsByType = MapInc(a.EventsByType, e.Type)]

\* TrackUserSessionHour without the tests for an empty user or session id
TrackUserSessionHour_NoGuards(a, e) ==
    [a EXCEPT !.UniqueUsers = a.UniqueUsers \cup {e.UserID},
              !.SessionsActive = MapSet(a.SessionsActive, e.SessionID, e.Timestamp),
              !.HourlyData = MapInc(a.HourlyData, TruncateHour(e.Timestamp))]

\* TrackUserSessionHour that keeps the latest timestamp seen for a session
TrackUserSessionHour_KeepLatest(a, e) ==
    LET users == IF e.UserID # "" THEN a.UniqueUsers \cup {e.UserID}
                 ELSE a.UniqueUsers
        sessions == IF e.SessionID # ""
                         /\ ~(e.SessionID \in DOMAIN a.SessionsActive
                                 /\ a.SessionsActive[e.SessionID] > e.Timestamp)
                    THEN MapSet(a.SessionsActive, e.SessionID, e.Timestamp)
                    ELSE a.SessionsActive
    IN [a EXCEPT !.UniqueUsers = users,
                 !.SessionsActive = sessions,
                 !.HourlyData = MapInc(a.HourlyData, TruncateHour(e.Timestamp))]

\* service.go 47-59: unique users, session activity, hourly data
TrackUserSessionHour(a, e) ==
    LET users == IF e.UserID # "" THEN a.UniqueUsers \cup {e.UserID}
                 ELSE a.UniqueUsers
        sessions == IF e.SessionID # ""
                    THEN MapSet(a.SessionsActive, e.SessionID, e.Timestamp)
                    ELSE a.SessionsActive
    IN [a EXCEPT !.UniqueUsers = users,
                 !.SessionsActive = sessions,
                 !.HourlyData = MapInc(a.HourlyData, TruncateHour(e.Timestamp))]

\* event.Metadata[key].(float64)
IsFloat(meta, key) == key \in DOMAIN meta /\ "num" \in DOMAIN meta[key]

\* event.Metadata[key].(string)
IsString(meta, key) == key \in DOMAIN meta /\ "str" \in DOMAIN meta[key]

\* processPageView that trims the slice only once it is two over the limit
processPageView_LateTrim(a, e) ==
    LET visitors0 == IF e.URL \in DOMAIN a.PageVisitors THEN a.PageVisitors
                     ELSE a.PageVisitors @@ (e.URL :> {})
        visitors == IF e.UserID # ""
                    THEN [visitors0 EXCEPT ![e.URL] = @ \cup {e.UserID}]
                    ELSE visitors0
        appended == Append(a.LoadTimes, e.Metadata["load_time"].num)
        loadTimes == IF IsFloat(e.Metadata, "load_time")
                     THEN IF Len(appended) > LoadTimesCap + 1 THEN Tail(appended)
                          ELSE appended
                     ELSE a.LoadTimes
    IN [a EXCEPT !.PageViews = MapInc(a.PageViews, e.URL),
                 !.PageVisitors = visitors,
                 !.LoadTimes = loadTimes]

\* processPageView that records the empty user id as a visitor
processPageView_AnyVisitor(a, e) ==
    LET visitors0 == IF e.URL \in DOMAIN a.PageVisitors THEN a.PageVisitors
                     ELSE a.PageVisitors @@ (e.URL :> {})
        visitors == [visitors0 EXCEPT ![e.URL] = @ \cup {e.UserID}]
        appended == Append(a.LoadTimes, e.Metadata["load_time"].num)
        loadTimes == IF IsFloat(e.Metadata, "load_time")
                     THEN IF Len(appended) > LoadTimesCap THEN Tail(appended)
                          ELSE appended
                     ELSE a.LoadTimes
    IN [a EXCEPT !.PageViews = MapInc(a.PageViews, e.URL),
                 !.PageVisitors = visitors,
                 !.LoadTimes = loadTimes]

\* service.go 91-110
processPageView(a, e) ==
    LET visitors0 == IF e.URL \in DOMAIN a.PageVisitors THEN a.PageVisitors
                     ELSE a.PageVisitors @@ (e.URL :> {})
        visitors == IF e.UserID # ""
                    THEN [visitors0 EXCEPT ![e.URL] = @ \cup {e.UserID}]
                    ELSE visitors0
        appended == Append(a.LoadTimes, e.Metadata["load_time"].num)
        loadTimes == IF IsFloat(e.Metadata, "load_time")
                     THEN IF Len(appended) > LoadTimesCap THEN Tail(appended)
                          ELSE appended
                     ELSE a.LoadTimes
    IN [a EXCEPT !.PageViews = MapInc(a.PageViews, e.URL),
                 !.PageVisitors = visitors,
                 !.LoadTimes = loadTimes]

processClick(a, e) == a

processSession(a, e) ==
    LET devices == IF IsString(e.Metadata, "device") /\ e.Metadata["device"].str # ""
                   THEN MapInc(a.DeviceTypes, e.Metadata["device"].str)
                   ELSE a.DeviceTypes
        browsers == IF IsString(e.Metadata, "browser") /\ e.Metadata["browser"].str # ""
                    THEN MapInc(a.BrowserTypes, e.Metadata["browser"].str)
                    ELSE a.BrowserTypes
    IN [a EXCEPT !.DeviceTypes = devices, !.BrowserTypes = browsers]

processReferrer(a, referrer) ==
    IF referrer.ParseOK /\ referrer.Host # <<>>
    THEN LET domain == IF Head(referrer.Host) = "www" /\ Len(referrer.Host) > 1
                       THEN Tail(referrer.Host) ELSE referrer.Host
         IN [a EXCEPT !.TrafficSources = MapInc(a.TrafficSources, domain)]
    ELSE a

\* processUserAgent that looks for safari before chrome and for a tablet
\* before a phone
processUserAgent_SafariFirst(a, userAgent) ==
    LET browser == IF Contains(userAgent, "safari") THEN "Safari"
                   ELSE IF Contains(userAgent, "chrome") THEN "Chrome"
                   ELSE IF Contains(userAgent, "firefox") THEN "Firefox"
                   ELSE IF Contains(userAgent, "edge") THEN "Edge"
                   ELSE "Other"
        device == IF Contains(userAgent, "tablet") \/ Contains(userAgent, "ipad")
                  THEN "Tablet"
                  ELSE IF Contains(userAgent, "mobile") \/ Contains(userAgent, "iphone")
                     \/ Contains(userAgent, "android") THEN "Mobile"
                  ELSE "Desktop"
    IN [a EXCEPT !.BrowserTypes = MapInc(a.BrowserTypes, browser),
                 !.DeviceTypes = MapInc(a.DeviceTypes, device)]

\* service.go 140-165
processUserAgent(a, userAgent) ==
    LET browser == IF Contains(userAgent, "chrome") THEN "Chrome"
                   ELSE IF Contains(userAgent, "firefox") THEN "Firefox"
                   ELSE IF Contains(userAgent, "safari") THEN "Safari"
                   ELSE IF Contains(userAgent, "edge") THEN "Edge"
                   ELSE "Other"
        device == IF Contains(userAgent, "mobile") \/ Contains(userAgent, "iphone")
                     \/ Contains(userAgent, "android") THEN "Mobile"
                  ELSE IF Contains(userAgent, "tablet") \/ Contains(userAgent, "ipad")
                  THEN "Tablet"
                  ELSE "Desktop"
    IN [a EXCEPT !.BrowserTypes = MapInc(a.BrowserTypes, browser),
                 !.DeviceTypes = MapInc(a.DeviceTypes, device)]

\* a dispatch that leaves the agent alone when the session's metadata names
\* the device and the browser
DispatchByType_MetadataWins(a, e) ==
    LET a1 == CASE e.Type = PageView -> processPageView(a, e)
                [] e.Type = Click -> processClick(a, e)
                [] e.Type = Session -> processSession(a, e)
                [] OTHER -> a
        a2 == IF e.Referrer.Raw # "" THEN processReferrer(a1, e.Referrer) ELSE a1
        named == e.Type = Session /\ IsString(e.Metadata, "device")
                     /\ IsString(e.Metadata, "browser")
    IN IF e.UserAgent # <<>> /\ ~named THEN processUserAgent(a2, e.UserAgent) ELSE a2

\* service.go 61-79: the switch on the event type, the referrer, the agent
DispatchByType(a, e) ==
    LET a1 == CASE e.Type = PageView -> processPageView(a, e)
                [] e.Type = Click -> processClick(a, e)
                [] e.Type = Session -> processSession(a, e)
                [] OTHER -> a
        a2 == IF e.Referrer.Raw # "" THEN processReferrer(a1, e.Referrer) ELSE a1
    IN IF e.UserAgent # <<>> THEN processUserAgent(a2, e.UserAgent) ELSE a2

\* cleanup that also drops a session idle for exactly the limit
cleanup_DropAtLimit(a, t) ==
    LET stale == {s \in DOMAIN a.SessionsActive : t - a.SessionsActive[s] >= SessionTTL}
        cutoff == TruncateHour(t - HourlyKeep)
        old == {h \in DOMAIN a.HourlyData : h < cutoff}
    IN [a EXCEPT !.SessionsActive = MapDelete(a.SessionsActive, stale),
                 !.HourlyData = MapDelete(a.HourlyData, old)]

\* cleanup that also empties the page counters and keeps the visitors
cleanup_ResetViews(a, t) ==
    LET stale == {s \in DOMAIN a.SessionsActive : t - a.SessionsActive[s] > SessionTTL}
        cutoff == TruncateHour(t - HourlyKeep)
        old == {h \in DOMAIN a.HourlyData : h < cutoff}
    IN [a EXCEPT !.SessionsActive = MapDelete(a.SessionsActive, stale),
                 !.HourlyData = MapDelete(a.HourlyData, old),
                 !.PageViews = EmptyMap]

\* service.go 168-185
cleanup(a, t) ==
    LET stale == {s \in DOMAIN a.SessionsActive : t - a.SessionsActive[s] > SessionTTL}
        cutoff == TruncateHour(t - HourlyKeep)
        old == {h \in DOMAIN a.HourlyData : h < cutoff}
    IN [a EXCEPT !.SessionsActive = MapDelete(a.SessionsActive, stale),
                 !.HourlyData = MapDelete(a.HourlyData, old)]

\* a periodic cleanup that already runs when exactly 5 minutes have passed
PeriodicCleanup_AtFive(a, t) ==
    IF t - a.LastCleanup >= CleanupEvery
    THEN [cleanup(a, t) EXCEPT !.LastCleanup = t]
    ELSE a

\* service.go 81-85: the periodic cleanup
PeriodicCleanup(a, t) ==
    IF t - a.LastCleanup > CleanupEvery
    THEN [cleanup(a, t) EXCEPT !.LastCleanup = t]
    ELSE a

-----------------------------------------------------------------------------
(* Service.GetSnapshot and its helpers *)

\* the outcomes of sort.Slice(rows, less): sort.Slice is not stable and the
\* rows come from ranging over a map, whose order Go leaves unspecified, so
\* every arrangement of the rows that the comparison accepts is an outcome
\* (key names the field the comparison reads); an arrangement starts with a
\* row that no other row exceeds and goes on with an arrangement of the rest
RECURSIVE SortSliceDesc(_, _)
SortSliceDesc(rows, key) ==
    IF rows = {} THEN {<<>>}
    ELSE UNION {{<<r>> \o p : p \in SortSliceDesc(rows \ {r}, key)}
                : r \in {x \in rows : \A y \in rows : ~(y[key] > x[key])}}

\* the first n elements of a slice
FirstN(s, n) == SubSeq(s, 1, Min(n, Len(s)))

\* getTopPages that keeps ten pages in map order before it sorts them
getTopPages_CutFirst(a) ==
    LET pages == {[URL |-> u, Path |-> u.Path, Views |-> a.PageViews[u],
                   UniqueVisitors |-> IF u \in DOMAIN a.PageVisitors
                                      THEN Cardinality(a.PageVisitors[u]) ELSE 0]
                  : u \in DOMAIN a.PageViews}
    IN UNION {SortSliceDesc(kept, "Views")
              : kept \in {S \in SUBSET pages
                             : Cardinality(S) = Min(TopN, Cardinality(pages))}}

\* service.go 226-270
getTopPages(a) ==
    LET pages == {[URL |-> u, Path |-> u.Path, Views |-> a.PageViews[u],
                   UniqueVisitors |-> IF u \in DOMAIN a.PageVisitors
                                      THEN Cardinality(a.PageVisitors[u]) ELSE 0]
                  : u \in DOMAIN a.PageViews}
    IN {FirstN(p, TopN) : p \in SortSliceDesc(pages, "Views")}

RECURSIVE SumCounts(_, _)
SumCounts(m, keys) ==
    IF keys = {} THEN 0
    ELSE LET k == CHOOSE x \in keys : TRUE IN m[k] + SumCounts(m, keys \ {k})

getTrafficSources(a) ==
    LET totalTraffic == SumCounts(a.TrafficSources, DOMAIN a.TrafficSources)
        sources == {[Source |-> d, Count |-> a.TrafficSources[d],
                     Percent |-> IF totalTraffic > 0
                                 THEN (a.TrafficSources[d] * 100) \div totalTraffic
                                 ELSE 0]
                    : d \in DOMAIN a.TrafficSources}
    IN {FirstN(p, TopN) : p \in SortSliceDesc(sources, "Count")}

\* getHourlyPageViews whose loop runs from 24 hours ago to one hour ago
getHourlyPageViews_EndsLastHour(a, t) ==
    [k \in 1..24 |->
        LET hour == TruncateHour(t - (25 - k) * Hour)
        IN [Hour |-> hour,
            Events |-> IF hour \in DOMAIN a.HourlyData THEN a.HourlyData[hour] ELSE 0]]

\* service.go 315-335
getHourlyPageViews(a, t) ==
    [k \in 1..24 |->
        LET hour == TruncateHour(t - (24 - k) * Hour)
        IN [Hour |-> hour,
            Events |-> IF hour \in DOMAIN a.HourlyData THEN a.HourlyData[hour] ELSE 0]]

extractLocation(ip) ==
    IF ip = <<>> THEN "Unknown"
    ELSE IF (Len(ip) >= 2 /\ ip[1] = 192 /\ ip[2] = 168) \/ ip[1] = 10 \/ ip[1] = 172
    THEN "Local"
    ELSE "External"

getRecentEvents(a) ==
    LET n == Len(a.Events)
        start == IF n > RecentShown THEN n - RecentShown ELSE 0
    IN [i \in 1..(n - start) |->
           LET event == a.Events[start + i]
           IN [Timestamp |-> event.Timestamp, Type |-> event.Type,
               URL |-> event.URL, UserID |-> event.UserID,
               Location |-> extractLocation(event.IPAddress)]]

getPerformanceMetrics(a) ==
    IF Len(a.LoadTimes) = 0
    THEN [AverageLoadTime |-> 0, MedianLoadTime |-> 0,
          SlowPagesCount |-> 0, FastPagesCount |-> 0]
    ELSE LET n == Len(a.LoadTimes)
             sorted == SortSeq(a.LoadTimes, <)
             slow == Cardinality({i \in 1..n : a.LoadTimes[i] > SlowThreshold})
         IN [AverageLoadTime |-> FloatDiv(FloatSum(a.LoadTimes), n),
             MedianLoadTime |-> sorted[(n \div 2) + 1],
             SlowPagesCount |-> slow, FastPagesCount |-> n - slow]

\* the snapshots GetSnapshot can return for store a at time t
GetSnapshot(a, t) ==
    {[Timestamp |-> t,
      TotalEvents |-> a.TotalEvents,
      UniqueUsers |-> Cardinality(a.UniqueUsers),
      ActiveSessions |-> Cardinality(DOMAIN a.SessionsActive),
      EventsByType |-> a.EventsByType,
      TopPages |-> tp,
      TrafficSources |-> ts,
      DeviceStats |-> a.DeviceTypes,
      BrowserStats |-> a.BrowserTypes,
      HourlyPageViews |-> getHourlyPageViews(a, t),
      RealTimeEvents |-> getRecentEvents(a),
      PerformanceMetrics |-> getPerformanceMetrics(a)]
     : tp \in getTopPages(a), ts \in getTrafficSources(a)}

-----------------------------------------------------------------------------
(* The callers of the store and the lock analytics.Mu *)

Writers == {"w1", "w2"}

Readers == {"r1", "r2"}

\* a sync.RWMutex that nobody holds or waits for: w the writer that holds
\* it, r the readers that hold it, q the callers of Lock that wait for the
\* writers' mutex rw.w, a the caller of Lock that holds rw.w and has
\* announced itself to the readers, b the callers of RLock that found a
\* writer announced and wait for its Unlock
RWMutex == [w |-> {}, r |-> {}, q |-> {}, a |-> {}, b |-> {}]

\* Lock is called by x: x waits for rw.w
LockCall(m, x) == [m EXCEPT !.q = @ \cup {x}]

\* x gets rw.w and announces itself: from now on RLock waits
CanAnnounce(m, x) == x \in m.q /\ m.a = {}

LockAnnounce(m, x) == [m EXCEPT !.q = @ \ {x}, !.a = {x}]

\* the readers that held the lock when x announced itself have left
CanAcquire(m, x) == m.a = {x} /\ m.w = {} /\ m.r = {}

LockAcquire(m, x) == [m EXCEPT !.w = {x}]

\* an Unlock that leaves the waiting readers asleep
Unlock_NoWake(m) == [m EXCEPT !.w = {}, !.a = {}]

\* Unlock lets in the readers that waited, then releases rw.w
Unlock(m) == [m EXCEPT !.w = {}, !.a = {}, !.r = m.b, !.b = {}]

\* RLock by x: x holds the lock at once unless a writer is announced
RLock(m, x) ==
    IF m.a = {} /\ m.w = {} THEN [m EXCEPT !.r = @ \cup {x}]
    ELSE [m EXCEPT !.b = @ \cup {x}]

RUnlock(m, x) == [m EXCEPT !.r = @ \ {x}]

\* sync.RWMutex.Lock can proceed
CanLock(m) == m.w = {} /\ m.r = {}

\* an RLock that does not wait for the writer
CanRLock_NoWait(m) == TRUE

\* sync.RWMutex.RLock can proceed
CanRLock(m) == m.w = {} /\ m.a = {}

InitStore ==
    /\ now = StartClock
    /\ analytics = NewRealTimeAnalytics(StartClock)
    /\ mu = RWMutex
    /\ wpc = [w \in Writers |-> "idle"]
    /\ warg = [w \in Writers |-> <<>>]
    /\ rpc = [r \in Readers |-> "idle"]
    /\ snap = [r \in Readers |-> <<>>]
    /\ snapAt = [r \in Readers |-> 0]
    /\ ingestLog = <<>>
    /\ hist = <<NewRealTimeAnalytics(StartClock)>>

\* ProcessEvent is called with event e and takes the write lock (service.go 32)
ProcessEventLock(w, e) ==
    /\ wpc[w] = "idle"
    /\ CanLock(mu)
    /\ mu' = [mu EXCEPT !.w = {w}]
    /\ wpc' = [wpc EXCEPT ![w] = "append"]
    /\ warg' = [warg EXCEPT ![w] = <<e>>]
    /\ ingestLog' = Append(ingestLog, e)
    /\ UNCHANGED <<now, analytics, rpc, snap, snapAt, hist>>
    /\ UNCHANGED <<hubVars, consumer, alertVars, wire, handler>>

\* service.go 35-45
ProcessEventAppend(w) ==
    /\ wpc[w] = "append"
    /\ analytics' = AppendAndCount(analytics, warg[w][1])
    /\ wpc' = [wpc EXCEPT ![w] = "track"]
    /\ UNCHANGED <<now, mu, warg, rpc, snap, snapAt, ingestLog, hist>>
    /\ UNCHANGED <<hubVars, consumer, alertVars, wire, handler>>

\* service.go 47-59
ProcessEventTrack(w) ==
    /\ wpc[w] = "track"
    /\ analytics' = TrackUserSessionHour(analytics, warg[w][1])
    /\ wpc' = [wpc EXCEPT ![w] = "dispatch"]
    /\ UNCHANGED <<now, mu, warg, rpc, snap, snapAt, ingestLog, hist>>
    /\ UNCHANGED <<hubVars, consumer, alertVars, wire, handler>>

\* service.go 61-79
ProcessEventDispatch(w) ==
    /\ wpc[w] = "dispatch"
    /\ analytics' = DispatchByType(analytics, warg[w][1])
    /\ wpc' = [wpc EXCEPT ![w] = "cleanup"]
    /\ UNCHANGED <<now, mu, warg, rpc, snap, snapAt, ingestLog, hist>>
    /\ UNCHANGED <<hubVars, consumer, alertVars, wire, handler>>

\* the periodic cleanup, then the deferred Unlock and the return
\* (service.go 33, 81-87)
ProcessEventReturn(w) ==
    /\ wpc[w] = "cleanup"
    /\ analytics' = PeriodicCleanup(analytics, now)
    /\ mu' = [mu EXCEPT !.w = {}]
    /\ wpc' = [wpc EXCEPT ![w] = "idle"]
    /\ warg' = [warg EXCEPT ![w] = <<>>]
    /\ hist' = Append(hist, analytics')
    /\ UNCHANGED <<now, rpc, snap, snapAt, ingestLog>>
    /\ UNCHANGED <<hubVars, consumer, alertVars, wire, handler>>

\* GetSnapshot takes the read lock (service.go 189)
GetSnapshotRLock(r) ==
    /\ rpc[r] = "idle"
    /\ CanRLock(mu)
    /\ mu' = [mu EXCEPT !.r = @ \cup {r}]
    /\ rpc' = [rpc EXCEPT ![r] = "rlocked"]
    /\ UNCHANGED <<now, analytics, wpc, warg, snap, snapAt, ingestLog, hist>>
    /\ UNCHANGED <<hubVars, consumer, alertVars, wire, handler>>

\* GetSnapshot builds the snapshot, releases the read lock and returns
\* (service.go 190-222)
GetSnapshotReturn(r) ==
    /\ rpc[r] = "rlocked"
    /\ \E s \in GetSnapshot(analytics, now) : snap' = [snap EXCEPT ![r] = <<s>>]
    /\ snapAt' = [snapAt EXCEPT ![r] = Len(hist) - 1]
    /\ mu' = [mu EXCEPT !.r = @ \ {r}]
    /\ rpc' = [rpc EXCEPT ![r] = "idle"]
    /\ UNCHANGED <<now, analytics, wpc, warg, ingestLog, hist>>
    /\ UNCHANGED <<hubVars, consumer, alertVars, wire, handler>>

\* the clock advances by d minutes
Tick(d) ==
    /\ now + d <= StartClock + MaxClockAdvance
    /\ now' = now + d
    /\ UNCHANGED <<analytics, mu, wpc, warg, rpc, snap, snapAt, ingestLog, hist>>
    /\ UNCHANGED <<hubVars, consumer, alertVars, wire, handler>>

-----------------------------------------------------------------------------
(* The state of Consumer.ConsumeEvents *)

\* ConsumeEvents is about to enter its loop (consumer.go 38-43); fetched,
\* calls and commits record, per fetched message, its payload, the results
\* of the handler calls and the number
\* of the CommitMessages calls; ctx is the context of main (cmd/consumer
\* main.go 134), err the error ConsumeEvents returned and exit the branch
\* main took on it
InitConsumer ==
    consumer = [pc |-> "loop", offset |-> 0, msg |-> <<>>, attempt |-> 0,
                fetched |-> <<>>, calls |-> <<>>, commits |-> <<>>,
                ctx |-> "live", err |-> <<>>, exit |-> ""]

-----------------------------------------------------------------------------
(* Service.alerts, Service.AddAlert and Service.CheckAlerts *)

\* service.go 23-28: NewService starts without alert configurations
\* the callers of CheckAlerts and of AddAlert
Checkers == {"k1"}

Adders == {"a1"}

InitAlerts ==
    /\ alerts = <<>>
    /\ svc = [mu |-> RWMutex,
              pc |-> [k \in Checkers \cup Adders |-> "idle"],
              snapshot |-> [k \in Checkers |-> <<>>],
              arg |-> [a \in Adders |-> <<>>]]
    /\ checked = <<>>

\* getMetricValue that counts the events of the current hour only
getMetricValue_ThisHour(snapshot, metric) ==
    CASE metric = "total_events" -> snapshot.HourlyPageViews[24].Events
      [] metric = "unique_users" -> snapshot.UniqueUsers
      [] metric = "active_sessions" -> snapshot.ActiveSessions
      [] metric = "average_load_time" -> snapshot.PerformanceMetrics.AverageLoadTime
      [] OTHER -> 0

\* service.go 459-472
getMetricValue(snapshot, metric) ==
    CASE metric = "total_events" -> snapshot.TotalEvents
      [] metric = "unique_users" -> snapshot.UniqueUsers
      [] metric = "active_sessions" -> snapshot.ActiveSessions
      [] metric = "average_load_time" -> snapshot.PerformanceMetrics.AverageLoadTime
      [] OTHER -> 0

\* evaluateAlertCondition whose gt also fires at the threshold
evaluateAlertCondition_AtThreshold(current, threshold, operator) ==
    CASE operator = "gt" -> current >= threshold
      [] operator = "lt" -> current < threshold
      [] operator = "eq" -> current = threshold
      [] OTHER -> FALSE

\* evaluateAlertCondition that reads an operator it does not know as gt
evaluateAlertCondition_UnknownIsGt(current, threshold, operator) ==
    CASE operator = "lt" -> current < threshold
      [] operator = "eq" -> current = threshold
      [] OTHER -> current > threshold

\* service.go 475-486
evaluateAlertCondition(current, threshold, operator) ==
    CASE operator = "gt" -> current > threshold
      [] operator = "lt" -> current < threshold
      [] operator = "eq" -> current = threshold
      [] OTHER -> FALSE

\* service.go 495-506
getAlertSeverity(alertType) ==
    CASE alertType = "performance" -> "medium"
      [] alertType = "traffic" -> "low"
      [] alertType = "error" -> "high"
      [] OTHER -> "medium"

\* service.go 431-452: the alerts of the configurations rules on snapshot
\* s at time t, in the order of the configurations
RECURSIVE CheckAlerts(_, _, _)
CheckAlerts(rules, s, t) ==
    IF rules = <<>> THEN <<>>
    ELSE LET alertConfig == Head(rules)
             currentValue == getMetricValue(s, alertConfig.Metric)
             triggered == evaluateAlertCondition(currentValue, alertConfig.Threshold,
                                                 alertConfig.Operator)
             alert == [ID |-> t, Type |-> alertConfig.Type,
                       Message |-> [Name |-> alertConfig.Name,
                                    Metric |-> alertConfig.Metric,
                                    Value |-> currentValue,
                                    Threshold |-> alertConfig.Threshold],
                       Severity |-> getAlertSeverity(alertConfig.Type),
                       Timestamp |-> t, Resolved |-> FALSE,
                       Threshold |-> alertConfig.Threshold,
                       CurrentValue |-> currentValue]
         IN (IF alertConfig.Enabled /\ triggered THEN <<alert>> ELSE <<>>)
                \o CheckAlerts(Tail(rules), s, t)

\* service.go 418-422
AddAlert(config) ==
    /\ alerts' = Append(alerts, config)
    /\ UNCHANGED <<storeVars, hubVars, consumer, svc, checked, wire, handler>>

\* a call of CheckAlerts (service.go 425-456); GetSnapshot waits for the
\* read lock of the store
CheckAlertsCall ==
    /\ CanRLock(mu)
    /\ \E s \in GetSnapshot(analytics, now) :
          checked' = <<[rules |-> alerts, store |-> analytics, at |-> now,
                        out |-> CheckAlerts(alerts, s, now)]>>
                         \o (IF checked # <<>> /\ checked[1].store = analytics
                                  /\ checked[1].rules = alerts
                              THEN <<checked[1]>> ELSE <<>>)
    /\ UNCHANGED <<storeVars, hubVars, consumer, alerts, svc, wire, handler>>

\* nothing has been encoded yet
InitWire == wire = <<>>

\* the goroutines net/http runs Server.handleEvent on
Handlers == {"h1", "h2"}

\* main.go 30-40, 150-160: no request has arrived
InitHandler ==
    handler = [pc |-> [h \in Handlers |-> "idle"],
               event |-> [h \in Handlers |-> <<>>],
               serving |-> [h \in Handlers |-> 0],
               requests |-> <<>>,
               topic |-> <<>>,
               calls |-> <<>>]

-----------------------------------------------------------------------------
(* The hub: Hub.Run, removeClient, broadcastAnalyticsUpdate, Broadcast* *)

Clients == {"c1", "c2"}

\* the goroutines that call GetClientCount
Counters == {"g1"}

Broadcasters == {"b1"}

\* a marshalled models.WebSocketMessage: its Type and, for a broadcast
\* payload, its number in the order of marshalling
Payload(kind, id) == [kind |-> kind, id |-> id]

\* json.Marshal succeeds on a float64 unless it is +Inf (or NaN)
jsonMarshalOK(value) == value < Inf

\* json.Marshal of a message that carries snapshot s
snapshotMarshalOK(s) ==
    /\ jsonMarshalOK(s.PerformanceMetrics.AverageLoadTime)
    /\ jsonMarshalOK(s.PerformanceMetrics.MedianLoadTime)
    /\ \A i \in DOMAIN s.TrafficSources : jsonMarshalOK(s.TrafficSources[i].Percent)

\* the part of the hub that the cases of Hub.Run work on
HubState == [clients |-> clients, send |-> send, closes |-> closes, enq |-> enq]

\* the case named case leaves the hub as h
SetHub(h, case) ==
    /\ clients' = h.clients
    /\ send' = h.send
    /\ closes' = h.closes
    /\ enq' = h.enq
    /\ removedBy' = [c \in Clients |->
                        IF h.closes[c] > closes[c] THEN case ELSE removedBy[c]]
    /\ counter' = [counter EXCEPT !.raced =
                      [g \in Counters |-> @[g] \/ (counter.pc[g] = "reading"
                                                      /\ h.clients # clients)]]

\* removeClient that closes the channel without looking the client up
removeClient_NoLookup(h, c) ==
    [h EXCEPT !.clients = @ \ {c}, !.closes[c] = @ + 1]

\* removeClient that leaves the client registered and its channel open
removeClient_Keep(h, c) == h

\* removeClient that forgets to close the client's channel
removeClient_NoClose(h, c) ==
    [h EXCEPT !.clients = @ \ {c}]

removeClient(h, c) ==
    IF c \in h.clients
    THEN [h EXCEPT !.clients = @ \ {c}, !.closes[c] = @ + 1]
    ELSE h

\* the select that leaves a client with a full queue registered
sendOrRemove_SkipFull(h, c, m) ==
    IF Len(h.send[c]) < SendCap
    THEN [h EXCEPT !.send[c] = Append(@, m), !.enq[c] = Append(@, m)]
    ELSE h

\* select { case client.send <- m: default: h.removeClient(client) }
sendOrRemove(h, c, m) ==
    IF Len(h.send[c]) < SendCap
    THEN [h EXCEPT !.send[c] = Append(@, m), !.enq[c] = Append(@, m)]
    ELSE removeClient(h, c)

\* the loop that gives up at the first client whose queue is full
RECURSIVE broadcastAll_StopAtFull(_, _, _)
broadcastAll_StopAtFull(h, cs, m) ==
    IF cs = {} THEN h
    ELSE LET c == CHOOSE x \in cs : TRUE
         IN IF Len(h.send[c]) < SendCap
            THEN broadcastAll_StopAtFull(sendOrRemove(h, c, m), cs \ {c}, m)
            ELSE removeClient(h, c)

\* for client := range h.clients { select ... } over the clients cs
RECURSIVE broadcastAll(_, _, _)
broadcastAll(h, cs, m) ==
    IF cs = {} THEN h
    ELSE LET c == CHOOSE x \in cs : TRUE
         IN broadcastAll(sendOrRemove(h, c, m), cs \ {c}, m)

\* the select that makes room by dropping the oldest payload
trySendBroadcast_DropOldest(q, m) ==
    IF Len(q) < BroadcastCap THEN Append(q, m) ELSE Append(Tail(q), m)

\* select { case h.broadcast <- data: default: }
trySendBroadcast(q, m) ==
    IF Len(q) < BroadcastCap THEN Append(q, m) ELSE q

InitHub ==
    /\ clients = {}
    /\ send = [c \in Clients |-> <<>>]
    /\ closes = [c \in Clients |-> 0]
    /\ broadcast = <<>>
    /\ bpc = [b \in Broadcasters |-> "idle"]
    /\ barg = [b \in Broadcasters |-> <<>>]
    /\ wp = [c \in Clients |-> "off"]
    /\ wbuf = [c \in Clients |-> <<>>]
    /\ rp = [c \in Clients |-> "off"]
    /\ conn = [c \in Clients |-> "open"]
    /\ written = [c \in Clients |-> <<>>]
    /\ enq = [c \in Clients |-> <<>>]
    /\ dequeued = 0
    /\ removedBy = [c \in Clients |-> ""]
    /\ nextId = 1
    /\ ticked = <<>>
    /\ counter = [mu |-> RWMutex,
                  pc |-> [g \in Counters |-> "idle"],
                  got |-> [g \in Counters |-> <<>>],
                  raced |-> [g \in Counters |-> FALSE]]

Init == InitStore /\ InitHub /\ InitConsumer /\ InitAlerts /\ InitWire /\ InitHandler

\* ServeWS hands a new client to the hub (hub.go 208-220) and the hub runs
\* its register case (hub.go 77-98); GetSnapshot waits for the read lock
HubRegister(c) ==
    /\ wp[c] = "off"
    /\ CanLock(counter.mu)
    /\ CanRLock(mu)
    /\ \E s \in GetSnapshot(analytics, now) :
          LET h1 == [HubState EXCEPT !.clients = @ \cup {c}]
              h2 == IF snapshotMarshalOK(s)
                    THEN sendOrRemove(h1, c, Payload("analytics_snapshot", 0))
                    ELSE h1
          IN SetHub(h2, "register")
    /\ wp' = [wp EXCEPT ![c] = "select"]
    /\ rp' = [rp EXCEPT ![c] = "reading"]
    /\ UNCHANGED <<broadcast, bpc, barg, wbuf, conn, written, dequeued, nextId>>
    /\ UNCHANGED <<storeVars, consumer, alertVars, wire, handler, ticked>>

\* readPump hands its client to the hub (hub.go 240) and the hub runs its
\* unregister case (hub.go 100-102)
HubUnregister(c) ==
    /\ rp[c] = "unregistering"
    /\ SetHub(removeClient(HubState, c), "unregister")
    /\ rp' = [rp EXCEPT ![c] = "closing"]
    /\ UNCHANGED <<broadcast, bpc, barg, wp, wbuf, conn, written, dequeued, nextId>>
    /\ UNCHANGED <<storeVars, consumer, alertVars, wire, handler, ticked>>

\* the hub takes a payload off Hub.broadcast and offers it to every client
\* (hub.go 104-113)
HubBroadcast ==
    /\ broadcast # <<>>
    /\ CanRLock(counter.mu)
    /\ SetHub(broadcastAll(HubState, clients, Head(broadcast)), "broadcast")
    /\ broadcast' = Tail(broadcast)
    /\ dequeued' = dequeued + 1
    /\ UNCHANGED <<bpc, barg, wp, wbuf, rp, conn, written, nextId>>
    /\ UNCHANGED <<storeVars, consumer, alertVars, wire, handler, ticked>>

\* the 5-second ticker fires: broadcastAnalyticsUpdate (hub.go 115-117, 131-146)
HubTicker ==
    /\ CanRLock(mu)
    /\ nextId <= MaxPayloads
    /\ \E s \in GetSnapshot(analytics, now) :
          IF snapshotMarshalOK(s)
          THEN /\ broadcast' = trySendBroadcast(broadcast, Payload("analytics_update", nextId))
               /\ nextId' = nextId + 1
               /\ ticked' = <<[payload |-> <<Payload("analytics_update", nextId)>>,
                               clients |-> clients]>>
          ELSE /\ ticked' = <<[payload |-> <<>>, clients |-> clients]>>
               /\ UNCHANGED <<broadcast, nextId>>
    /\ UNCHANGED <<clients, send, closes, bpc, barg, wp, wbuf, rp, conn, written,
                   enq, dequeued, removedBy>>
    /\ UNCHANGED <<storeVars, consumer, alertVars, wire, handler, counter>>

\* BroadcastEvent builds and marshals its message (hub.go 149-164)
BroadcastEvent(b) ==
    /\ bpc[b] = "idle"
    /\ nextId <= MaxPayloads
    /\ barg' = [barg EXCEPT ![b] = <<Payload("real_time_event", nextId)>>]
    /\ bpc' = [bpc EXCEPT ![b] = "select"]
    /\ nextId' = nextId + 1
    /\ UNCHANGED <<clients, send, closes, broadcast, wp, wbuf, rp, conn, written,
                   enq, dequeued, removedBy>>
    /\ UNCHANGED <<storeVars, consumer, alertVars, wire, handler, ticked, counter>>

\* BroadcastAlert builds and marshals its message (hub.go 174-181); the
\* float64 fields of the alert decide whether json.Marshal accepts it
BroadcastAlert(b, alert) ==
    /\ bpc[b] = "idle"
    /\ nextId <= MaxPayloads
    /\ IF jsonMarshalOK(alert.Threshold) /\ jsonMarshalOK(alert.CurrentValue)
       THEN /\ barg' = [barg EXCEPT ![b] = <<Payload("alert", nextId)>>]
            /\ bpc' = [bpc EXCEPT ![b] = "select"]
            /\ nextId' = nextId + 1
       ELSE UNCHANGED <<barg, bpc, nextId>>
    /\ UNCHANGED <<clients, send, closes, broadcast, wp, wbuf, rp, conn, written,
                   enq, dequeued, removedBy>>
    /\ UNCHANGED <<storeVars, consumer, alertVars, wire, handler, ticked, counter>>

\* the select of BroadcastEvent / BroadcastAlert, then the return
\* (hub.go 165-170, 182-187)
BroadcastSelect(b) ==
    /\ bpc[b] = "select"
    /\ broadcast' = trySendBroadcast(broadcast, barg[b][1])
    /\ bpc' = [bpc EXCEPT ![b] = "idle"]
    /\ barg' = [barg EXCEPT ![b] = <<>>]
    /\ UNCHANGED <<clients, send, closes, wp, wbuf, rp, conn, written, enq,
                   dequeued, nextId, removedBy>>
    /\ UNCHANGED <<storeVars, consumer, alertVars, wire, handler, ticked, counter>>

-----------------------------------------------------------------------------
(* Client.writePump and Client.readPump *)

\* whether a write on the connection can succeed: never once it is closed
WriteOutcomes(c) == IF conn[c] = "open" THEN {TRUE, FALSE} ELSE {FALSE}

\* a drain that puts the queued payloads before the one already written
drainQueue_Prepend(buf, q) == q \o buf

\* hub.go 286-290: the payloads queued in c.send follow the first one
drainQueue(buf, q) == buf \o q

\* writePump receives a payload and opens a writer for it (hub.go 272-283)
WritePumpRecv(c) ==
    /\ wp[c] = "select"
    /\ send[c] # <<>>
    /\ send' = [send EXCEPT ![c] = Tail(@)]
    /\ \E ok \in WriteOutcomes(c) :
          IF ok
          THEN /\ wbuf' = [wbuf EXCEPT ![c] = <<Head(send[c])>>]
               /\ wp' = [wp EXCEPT ![c] = "batch"]
               /\ UNCHANGED conn
          ELSE /\ wp' = [wp EXCEPT ![c] = "done"]
               /\ conn' = [conn EXCEPT ![c] = "closed"]
               /\ UNCHANGED wbuf
    /\ UNCHANGED <<clients, closes, broadcast, bpc, barg, rp, written, enq,
                   dequeued, nextId, removedBy>>
    /\ UNCHANGED <<storeVars, consumer, alertVars, wire, handler, ticked, counter>>

\* the close frame, a message with no payload
CloseMessage == <<>>

\* a writePump that returns as soon as c.send is closed, whatever it holds
WritePumpClosed_AtOnce(c) ==
    /\ wp[c] = "select"
    /\ closes[c] > 0
    /\ wp' = [wp EXCEPT ![c] = "done"]
    /\ conn' = [conn EXCEPT ![c] = "closed"]
    /\ \E ok \in WriteOutcomes(c) :
          written' = IF ok THEN [written EXCEPT ![c] = Append(@, CloseMessage)]
                     ELSE written
    /\ UNCHANGED <<clients, send, closes, broadcast, bpc, barg, wbuf, rp,
                   enq, dequeued, nextId, removedBy>>
    /\ UNCHANGED <<storeVars, consumer, alertVars, wire, handler, ticked, counter>>

\* writePump finds c.send closed and empty: it writes the close frame, the
\* error of that write ignored, returns and closes the connection
\* (hub.go 263-267, 272-277)
WritePumpClosed(c) ==
    /\ wp[c] = "select"
    /\ send[c] = <<>>
    /\ closes[c] > 0
    /\ wp' = [wp EXCEPT ![c] = "done"]
    /\ conn' = [conn EXCEPT ![c] = "closed"]
    /\ \E ok \in WriteOutcomes(c) :
          written' = IF ok THEN [written EXCEPT ![c] = Append(@, CloseMessage)]
                     ELSE written
    /\ UNCHANGED <<clients, send, closes, broadcast, bpc, barg, wbuf, rp,
                   enq, dequeued, nextId, removedBy>>
    /\ UNCHANGED <<storeVars, consumer, alertVars, wire, handler, ticked, counter>>

\* writePump adds the payloads now queued to the message (hub.go 285-290)
WritePumpBatch(c) ==
    /\ wp[c] = "batch"
    /\ wbuf' = [wbuf EXCEPT ![c] = drainQueue(@, send[c])]
    /\ send' = [send EXCEPT ![c] = <<>>]
    /\ wp' = [wp EXCEPT ![c] = "flush"]
    /\ UNCHANGED <<clients, closes, broadcast, bpc, barg, rp, conn, written, enq,
                   dequeued, nextId, removedBy>>
    /\ UNCHANGED <<storeVars, consumer, alertVars, wire, handler, ticked, counter>>

\* writePump closes the writer (hub.go 292-294): the message goes out, or
\* the write fails after some of its payloads and writePump returns
WritePumpFlush(c) ==
    /\ wp[c] = "flush"
    /\ wbuf' = [wbuf EXCEPT ![c] = <<>>]
    /\ \E ok \in WriteOutcomes(c) :
          IF ok
          THEN /\ written' = [written EXCEPT ![c] = Append(@, wbuf[c])]
               /\ wp' = [wp EXCEPT ![c] = "select"]
               /\ UNCHANGED conn
          ELSE /\ \E k \in 0..(Len(wbuf[c]) - 1) :
                     written' = IF k = 0 THEN written
                                ELSE [written EXCEPT ![c] = Append(@, SubSeq(wbuf[c], 1, k))]
               /\ wp' = [wp EXCEPT ![c] = "done"]
               /\ conn' = [conn EXCEPT ![c] = "closed"]
    /\ UNCHANGED <<clients, send, closes, broadcast, bpc, barg, rp, enq, dequeued,
                   nextId, removedBy>>
    /\ UNCHANGED <<storeVars, consumer, alertVars, wire, handler, ticked, counter>>

\* the ping ticker fires and the ping cannot be written (hub.go 296-300); a
\* ping that is written changes nothing
WritePumpPingFails(c) ==
    /\ wp[c] = "select"
    /\ wp' = [wp EXCEPT ![c] = "done"]
    /\ conn' = [conn EXCEPT ![c] = "closed"]
    /\ UNCHANGED <<clients, send, closes, broadcast, bpc, barg, wbuf, rp, written,
                   enq, dequeued, nextId, removedBy>>
    /\ UNCHANGED <<storeVars, consumer, alertVars, wire, handler, ticked, counter>>

\* ReadMessage returns an error and readPump leaves its loop (hub.go 251-259)
ReadPumpError(c) ==
    /\ rp[c] = "reading"
    /\ rp' = [rp EXCEPT ![c] = "unregistering"]
    /\ UNCHANGED <<clients, send, closes, broadcast, bpc, barg, wp, wbuf, conn,
                   written, enq, dequeued, nextId, removedBy>>
    /\ UNCHANGED <<storeVars, consumer, alertVars, wire, handler, ticked, counter>>

\* readPump closes the connection and returns (hub.go 241)
ReadPumpClose(c) ==
    /\ rp[c] = "closing"
    /\ rp' = [rp EXCEPT ![c] = "done"]
    /\ conn' = [conn EXCEPT ![c] = "closed"]
    /\ UNCHANGED <<clients, send, closes, broadcast, bpc, barg, wp, wbuf, written,
                   enq, dequeued, nextId, removedBy>>
    /\ UNCHANGED <<storeVars, consumer, alertVars, wire, handler, ticked, counter>>

-----------------------------------------------------------------------------
(* Hub.GetClientCount *)

\* GetClientCount takes the read lock of Hub.mu (hub.go 192)
GetClientCountRLock(g) ==
    /\ counter.pc[g] = "idle"
    /\ CanRLock(counter.mu)
    /\ counter' = [counter EXCEPT !.mu.r = @ \cup {g}, !.pc[g] = "reading",
                                  !.raced[g] = FALSE]
    /\ UNCHANGED <<clients, send, closes, broadcast, bpc, barg, wp, wbuf, rp, conn,
                   written, enq, dequeued, removedBy, nextId, ticked>>
    /\ UNCHANGED <<storeVars, consumer, alertVars, wire, handler>>

\* GetClientCount reads len(h.clients), releases the lock and returns
\* (hub.go 193-194); a read of the map that ran while the hub wrote to it is
\* a data race and may return any count
GetClientCountReturn(g) ==
    /\ counter.pc[g] = "reading"
    /\ \E n \in IF counter.raced[g] THEN 0..Cardinality(Clients)
                 ELSE {Cardinality(clients)} :
          counter' = [counter EXCEPT !.mu.r = @ \ {g}, !.pc[g] = "idle",
                                     !.got[g] = <<n>>]
    /\ UNCHANGED <<clients, send, closes, broadcast, bpc, barg, wp, wbuf, rp, conn,
                   written, enq, dequeued, removedBy, nextId, ticked>>
    /\ UNCHANGED <<storeVars, consumer, alertVars, wire, handler>>
-----------------------------------------------------------------------------
(* Concurrent callers of the store *)

HomeUrl == Url("example.com", "/home")

AboutUrl == Url("example.com", "/about")

\* the events the concurrent callers ingest at time t
StoreEvents(t) ==
    {AnalyticsEvent("e1", PageView, t, "u1", "s1", HomeUrl,
                    Ref("https://www.google.com/search", TRUE, <<"www", "google", "com">>),
                    <<"Mozilla", "Chrome", "Mobile", "Safari">>, <<192, 168, 1, 7>>,
                    "load_time" :> [num |-> 1200]),
     AnalyticsEvent("e2", PageView, t, "u2", "", AboutUrl,
                    Ref("https://news.example.org/", TRUE, <<"news", "example", "org">>),
                    <<>>, <<>>, NoMeta),
     AnalyticsEvent("e3", Click, t, "u1", "s1", HomeUrl, NoRef, <<>>, <<8, 8, 8, 8>>,
                    NoMeta)}

Ingest ==
    \E w \in Writers : \E e \in StoreEvents(now) :
        Len(ingestLog) < MaxIngest /\ ProcessEventLock(w, e)

Append1 == \E w \in Writers : ProcessEventAppend(w)

Track == \E w \in Writers : ProcessEventTrack(w)

Dispatch == \E w \in Writers : ProcessEventDispatch(w)

Return == \E w \in Writers : ProcessEventReturn(w)

RenderLock == \E r \in Readers : GetSnapshotRLock(r)

RenderReturn == \E r \in Readers : GetSnapshotReturn(r)

ClockStore == Tick(MaxClockAdvance)

NextStore ==
    \/ Ingest
    \/ Append1
    \/ Track
    \/ Dispatch
    \/ Return
    \/ RenderLock
    \/ RenderReturn
    \/ ClockStore

SpecStore == Init /\ [][NextStore]_vars

-----------------------------------------------------------------------------
(* A single caller filling the recent-events buffer *)

\* the n-th event of the run: its type, user and page follow from n
BufferEvent(n, t) ==
    AnalyticsEvent(n,
                   CASE n % 4 = 0 -> PageView [] n % 4 = 1 -> Click
                     [] n % 4 = 2 -> Session [] OTHER -> UserEvent,
                   t,
                   IF n % 3 = 0 THEN "" ELSE IF n % 3 = 1 THEN "u1" ELSE "u2",
                   IF n % 2 = 0 THEN "s1" ELSE "",
                   IF n % 8 = 0 THEN HomeUrl ELSE AboutUrl,
                   NoRef, <<>>, <<>>, NoMeta)

IngestBuf ==
    /\ Len(ingestLog) < MaxIngestBuf
    /\ ProcessEventLock("w1", BufferEvent(Len(ingestLog) + 1, now))

NextBuffer ==
    \/ IngestBuf
    \/ Append1
    \/ Track
    \/ Dispatch
    \/ Return

SpecBuffer == Init /\ [][NextBuffer]_vars

-----------------------------------------------------------------------------
(* The hub and two clients, the store left empty *)

\* the alerts handed to BroadcastAlert
Alerts == {[Threshold |-> 5000, CurrentValue |-> MaxFloat64],
           [Threshold |-> 5000, CurrentValue |-> Inf]}

\* the first connection is called c1: c2 connects after it
Register ==
    \E c \in Clients : (c = "c2" => wp["c1"] # "off") /\ HubRegister(c)

Unregister == \E c \in Clients : HubUnregister(c)

EventBroadcast == \E b \in Broadcasters : BroadcastEvent(b)

HubEventBroadcast == nextId <= MaxHubEvents /\ EventBroadcast

AlertBroadcast == \E b \in Broadcasters : \E alert \in Alerts : BroadcastAlert(b, alert)

SelectBroadcast == \E b \in Broadcasters : BroadcastSelect(b)

PumpRecv == \E c \in Clients : WritePumpRecv(c)

PumpClosed == \E c \in Clients : WritePumpClosed(c)

PumpBatch == \E c \in Clients : WritePumpBatch(c)

PumpFlush == \E c \in Clients : WritePumpFlush(c)

PumpPingFails == \E c \in Clients : WritePumpPingFails(c)

ReadError == \E c \in Clients : ReadPumpError(c)

ReadClose == \E c \in Clients : ReadPumpClose(c)

NextHub ==
    \/ Register
    \/ Unregister
    \/ HubBroadcast
    \/ HubEventBroadcast
    \/ SelectBroadcast
    \/ PumpRecv
    \/ PumpClosed
    \/ PumpBatch
    \/ PumpFlush
    \/ PumpPingFails
    \/ ReadError
    \/ ReadClose

SpecHub == Init /\ [][NextHub]_vars

-----------------------------------------------------------------------------
(* One client connecting to the hub of a store that is being filled *)

\* a page view whose load time is the largest finite float64
HugeLoadEvent(t) ==
    AnalyticsEvent("e9", PageView, t, "u1", "", HomeUrl, NoRef, <<>>, <<>>,
                   "load_time" :> [num |-> MaxFloat64])

IngestHub ==
    /\ Len(ingestLog) < MaxIngestHub
    /\ ProcessEventLock("w1", HugeLoadEvent(now))

RegisterFirst == HubRegister("c1")

NextRegister ==
    \/ IngestHub
    \/ Append1
    \/ Track
    \/ Dispatch
    \/ Return
    \/ RegisterFirst
    \/ Unregister
    \/ HubBroadcast
    \/ HubTicker
    \/ EventBroadcast
    \/ SelectBroadcast
    \/ PumpRecv
    \/ PumpClosed
    \/ PumpBatch
    \/ PumpFlush
    \/ ReadError
    \/ ReadClose

SpecRegister == Init /\ [][NextRegister]_vars

-----------------------------------------------------------------------------
(* Every producer of broadcast payloads, the hub and one client *)

NextFanIn ==
    \/ RegisterFirst
    \/ Unregister
    \/ HubBroadcast
    \/ HubTicker
    \/ EventBroadcast
    \/ AlertBroadcast
    \/ SelectBroadcast
    \/ PumpRecv
    \/ PumpClosed
    \/ PumpBatch
    \/ PumpFlush
    \/ PumpPingFails
    \/ ReadError
    \/ ReadClose

SpecFanIn == Init /\ [][NextFanIn]_vars

-----------------------------------------------------------------------------
(* The hub and two clients whose connections fail, under fair scheduling *)

\* ReadMessage on a connection that has been closed returns an error
\* (hub.go 251-259 after conn.Close of hub.go 267)
ReadPumpSeesClosed(c) == conn[c] = "closed" /\ ReadPumpError(c)

\* the select of Hub.Run takes a client that waits on Hub.unregister; a
\* goroutine that can return from ReadMessage or close its connection does
FairUnregister ==
    \A c \in Clients :
        /\ WF_vars(HubUnregister(c))
        /\ WF_vars(ReadPumpSeesClosed(c))
        /\ WF_vars(ReadPumpClose(c))

FailEventBroadcast == nextId <= MaxFailEvents /\ EventBroadcast

NextFail ==
    \/ Register
    \/ Unregister
    \/ HubBroadcast
    \/ FailEventBroadcast
    \/ SelectBroadcast
    \/ PumpRecv
    \/ PumpClosed
    \/ PumpBatch
    \/ PumpFlush
    \/ PumpPingFails
    \/ ReadError
    \/ ReadClose

SpecFail == Init /\ [][NextFail]_vars /\ FairUnregister

-----------------------------------------------------------------------------
(* The ticker, a caller of BroadcastEvent, the hub and one client, under
   fair scheduling *)

\* the goroutines run: Hub.Run takes what is ready on its channels, a caller
\* of Broadcast* reaches its select, writePump receives, batches, flushes and
\* returns, readPump returns once its connection is closed
FairHub ==
    /\ FairUnregister
    /\ WF_vars(HubBroadcast)
    /\ \A b \in Broadcasters : WF_vars(BroadcastSelect(b))
    /\ \A c \in Clients :
          /\ WF_vars(WritePumpRecv(c))
          /\ WF_vars(WritePumpClosed(c))
          /\ WF_vars(WritePumpBatch(c))
          /\ WF_vars(WritePumpFlush(c))

NextTick ==
    \/ RegisterFirst
    \/ Unregister
    \/ HubBroadcast
    \/ HubTicker
    \/ EventBroadcast
    \/ SelectBroadcast
    \/ PumpRecv
    \/ PumpClosed
    \/ PumpBatch
    \/ PumpFlush
    \/ ReadError
    \/ ReadClose

SpecTick == Init /\ [][NextTick]_vars /\ FairHub

-----------------------------------------------------------------------------
(* The hub, two clients and a caller of GetClientCount *)

CountLock == \E g \in Counters : GetClientCountRLock(g)

CountReturn == \E g \in Counters : GetClientCountReturn(g)

NextCount ==
    \/ Register
    \/ Unregister
    \/ HubBroadcast
    \/ HubEventBroadcast
    \/ SelectBroadcast
    \/ ReadError
    \/ ReadClose
    \/ CountLock
    \/ CountReturn

SpecCount == Init /\ [][NextCount]_vars


-----------------------------------------------------------------------------
(* The four cases of Hub.Run in any order, two clients, the ticker as the
   source of payloads *)

\* the ticker fires while the run is short of MaxOrderTicks payloads
OrderTicker == nextId <= MaxOrderTicks /\ HubTicker

NextOrder ==
    \/ Register
    \/ Unregister
    \/ HubBroadcast
    \/ OrderTicker
    \/ PumpRecv
    \/ PumpClosed
    \/ PumpBatch
    \/ PumpFlush
    \/ ReadError
    \/ ReadClose

SpecOrder == Init /\ [][NextOrder]_vars

-----------------------------------------------------------------------------
(* The hub, the ticker and one client whose channel the hub closes, under
   fair scheduling *)

NextDrain ==
    \/ RegisterFirst
    \/ Unregister
    \/ HubBroadcast
    \/ OrderTicker
    \/ PumpRecv
    \/ PumpClosed
    \/ PumpBatch
    \/ PumpFlush
    \/ PumpPingFails
    \/ ReadError
    \/ ReadClose

SpecDrain == Init /\ [][NextDrain]_vars /\ FairHub
-----------------------------------------------------------------------------
(* One caller of the store at a time: a whole ProcessEvent call per step *)

\* service.go 31-88: the store after ProcessEvent(e) returns at time t
ProcessEvent(a, e, t) ==
    PeriodicCleanup(DispatchByType(TrackUserSessionHour(AppendAndCount(a, e), e), e), t)

\* a call of ProcessEvent that no other caller overlaps: Lock, the body,
\* Unlock (hist, the record of the concurrent runs, is left alone)
ProcessEventCall(e) ==
    /\ CanLock(mu)
    /\ \A w \in Writers : wpc[w] = "idle"
    /\ analytics' = ProcessEvent(analytics, e, now)
    /\ ingestLog' = Append(ingestLog, e)
    /\ UNCHANGED <<now, mu, wpc, warg, rpc, snap, snapAt, hist>>
    /\ UNCHANGED <<hubVars, consumer, alertVars, wire, handler>>

\* the n-th event of the load-time run: a click that carries a load time,
\* a page view whose load time is a string, page views with a load time
LoadEvent(n, t) ==
    AnalyticsEvent(n,
                   IF n % 8 = 0 THEN Click ELSE PageView,
                   t, "u1", "", HomeUrl, NoRef, <<>>, <<>>,
                   IF n % 8 = 4 THEN "load_time" :> [str |-> "fast"]
                   ELSE IF n % 8 = 6 THEN NoMeta
                   ELSE "load_time" :> [num |-> n])

IngestLoad ==
    /\ Len(ingestLog) < MaxIngestLoad
    /\ ProcessEventCall(LoadEvent(Len(ingestLog) + 1, now))

NextLoad == IngestLoad

SpecLoad == Init /\ [][NextLoad]_vars

-----------------------------------------------------------------------------
(* Sessions and hourly buckets across cleanup passes *)

\* the events of the cleanup runs at time t: two sessions, an event that
\* reports a timestamp 31 minutes in the past, an event without a session
CleanupEvents(t) ==
    {AnalyticsEvent("e1", Session, t, "u1", "s1", HomeUrl, NoRef, <<>>, <<>>, NoMeta),
     AnalyticsEvent("e2", Click, t, "u2", "s2", HomeUrl, NoRef, <<>>, <<>>, NoMeta),
     AnalyticsEvent("e3", Click, t - 31, "u1", "s1", HomeUrl, NoRef, <<>>, <<>>, NoMeta),
     AnalyticsEvent("e4", PageView, t, "", "", AboutUrl, NoRef, <<>>, <<>>, NoMeta)}

\* the waits between two calls, in minutes
Waits == {6, SessionTTL, SessionTTL + 1, HourlyKeep}

IngestCleanup ==
    /\ Len(ingestLog) < MaxIngestCleanup
    /\ \E e \in CleanupEvents(now) : ProcessEventCall(e)

\* the clock advances once after construction and once after each pass
ClockCleanup ==
    /\ now = analytics.LastCleanup
    /\ \E d \in Waits :
          /\ now + d <= StartClock + MaxAdvanceCleanup
          /\ now' = now + d
    /\ UNCHANGED <<analytics, mu, wpc, warg, rpc, snap, snapAt, ingestLog, hist>>
    /\ UNCHANGED <<hubVars, consumer, alertVars, wire, handler>>

NextCleanup ==
    \/ IngestCleanup
    \/ ClockCleanup

SpecCleanup == Init /\ [][NextCleanup]_vars

-----------------------------------------------------------------------------
(* Consumer.ConsumeEvents with a handler that feeds the store *)

\* the payloads of the topic at time t: bytes that are not JSON (<<>>), or
\* the JSON of an event (<<e>>)
Values(t) ==
    {<<>>,
     <<AnalyticsEvent("e1", PageView, t, "u1", "s1", HomeUrl, NoRef, <<>>, <<>>, NoMeta)>>}

\* json.Unmarshal(msg.Value, &event) returns no error
UnmarshalOK(value) == value # <<>>

\* reader.FetchMessage returns the next message (consumer.go 49)
ConsumerFetch(value) ==
    /\ consumer.pc = "loop"
    /\ consumer.offset < MaxMessages
    /\ consumer' = [consumer EXCEPT !.pc = "decode",
                                    !.offset = @ + 1,
                                    !.msg = <<value>>,
                                    !.fetched = Append(@, value),
                                    !.calls = Append(@, <<>>),
                                    !.commits = Append(@, 0)]
    /\ UNCHANGED <<storeVars, hubVars, alertVars, wire, handler>>

\* the context is cancelled or FetchMessage fails: ConsumeEvents returns
\* (consumer.go 45-52)
ConsumerReturn ==
    /\ consumer.pc = "loop"
    /\ consumer' = [consumer EXCEPT !.pc = "returned"]
    /\ UNCHANGED <<storeVars, hubVars, alertVars, wire, handler>>

\* a decode that hands an undecodable message to the handler all the same
ConsumerDecode_HandleAnyway ==
    /\ consumer.pc = "decode"
    /\ consumer' = [consumer EXCEPT !.pc = "handle", !.attempt = 1]
    /\ UNCHANGED <<storeVars, hubVars, alertVars, wire, handler>>

\* json.Unmarshal of the payload (consumer.go 54-64)
ConsumerDecode ==
    /\ consumer.pc = "decode"
    /\ consumer' = IF UnmarshalOK(consumer.msg[1])
                   THEN [consumer EXCEPT !.pc = "handle", !.attempt = 1]
                   ELSE [consumer EXCEPT !.pc = "commitUndecoded"]
    /\ UNCHANGED <<storeVars, hubVars, alertVars, wire, handler>>

\* the commit of a message that did not decode, then continue
\* (consumer.go 57-61); a failed CommitMessages is only logged
ConsumerCommitUndecoded ==
    /\ consumer.pc = "commitUndecoded"
    /\ consumer' = [consumer EXCEPT !.pc = "loop",
                                    !.msg = <<>>,
                                    !.commits[consumer.offset] = @ + 1]
    /\ UNCHANGED <<storeVars, hubVars, alertVars, wire, handler>>

\* the event the handler is given
HandlerEvent ==
    IF UnmarshalOK(consumer.msg[1]) THEN consumer.msg[1][1]
    ELSE AnalyticsEvent("", "", 0, "", "", Url("", ""), NoRef, <<>>, <<>>, NoMeta)

\* a retry loop that runs the handler once more than maxRetries allows
ConsumerHandle_ExtraAttempt(ok) ==
    /\ consumer.pc = "handle"
    /\ IF ok
       THEN /\ CanLock(mu)
            /\ analytics' = ProcessEvent(analytics, HandlerEvent, now)
            /\ ingestLog' = Append(ingestLog, HandlerEvent)
            /\ consumer' = [consumer EXCEPT !.pc = "commit",
                                            !.calls[consumer.offset] = Append(@, ok)]
       ELSE /\ consumer' = [consumer EXCEPT
                              !.pc = IF consumer.attempt + 1 <= maxRetries + 1
                                     THEN "handle" ELSE "commit",
                              !.attempt = @ + 1,
                              !.calls[consumer.offset] = Append(@, ok)]
            /\ UNCHANGED <<analytics, ingestLog>>
    /\ UNCHANGED <<now, mu, wpc, warg, rpc, snap, snapAt, hist>>
    /\ UNCHANGED <<hubVars, alertVars, wire, handler>>

\* one pass of the retry loop (consumer.go 67-79): the handler ingests the
\* event and returns nil, or returns an error and leaves the store alone
ConsumerHandle(ok) ==
    /\ consumer.pc = "handle"
    /\ IF ok
       THEN /\ CanLock(mu)
            /\ analytics' = ProcessEvent(analytics, HandlerEvent, now)
            /\ ingestLog' = Append(ingestLog, HandlerEvent)
            /\ consumer' = [consumer EXCEPT !.pc = "commit",
                                            !.calls[consumer.offset] = Append(@, ok)]
       ELSE /\ consumer' = [consumer EXCEPT
                              !.pc = IF consumer.attempt + 1 <= maxRetries
                                     THEN "handle" ELSE "commit",
                              !.attempt = @ + 1,
                              !.calls[consumer.offset] = Append(@, ok)]
            /\ UNCHANGED <<analytics, ingestLog>>
    /\ UNCHANGED <<now, mu, wpc, warg, rpc, snap, snapAt, hist>>
    /\ UNCHANGED <<hubVars, alertVars, wire, handler>>

\* a consumer that goes on to the next message without committing
ConsumerCommit_Skip ==
    /\ consumer.pc = "commit"
    /\ consumer' = [consumer EXCEPT !.pc = "loop", !.msg = <<>>]
    /\ UNCHANGED <<storeVars, hubVars, alertVars, wire, handler>>

\* the commit after the retry loop (consumer.go 81-85); a failed
\* CommitMessages is only logged
ConsumerCommit ==
    /\ consumer.pc = "commit"
    /\ consumer' = [consumer EXCEPT !.pc = "loop",
                                    !.msg = <<>>,
                                    !.commits[consumer.offset] = @ + 1]
    /\ UNCHANGED <<storeVars, hubVars, alertVars, wire, handler>>

Fetch == \E value \in Values(now) : ConsumerFetch(value)

Handle == \E ok \in BOOLEAN : ConsumerHandle(ok)

NextConsumer ==
    \/ Fetch
    \/ ConsumerReturn
    \/ ConsumerDecode
    \/ ConsumerCommitUndecoded
    \/ Handle
    \/ ConsumerCommit

SpecConsumer == Init /\ [][NextConsumer]_vars

-----------------------------------------------------------------------------
(* The consumer's shutdown: main cancels the context of ConsumeEvents *)

\* an error value: its message and the error it wraps, if any
Error(msg, wraps) == [msg |-> msg, wraps |-> wraps]

\* context.Canceled, the value ctx.Err() returns once the context is
\* cancelled
Canceled == Error("context canceled", <<>>)

\* fmt.Errorf(msg + ": %w", err): a new error value that wraps err
Errorf(msg, err) == Error(msg, <<err>>)

\* err == target, as main compares
Equal(err, target) == err = target

\* errors.Is(err, target): err or an error in its chain equals target
Is(err, target) ==
    \/ err = target
    \/ err.wraps # <<>> /\ err.wraps[1] = target

\* cmd/consumer main.go 141-146: the signal goroutine calls cancel()
ContextCancel ==
    /\ consumer.ctx = "live"
    /\ consumer.pc # "returned"
    /\ consumer' = [consumer EXCEPT !.ctx = "cancelled"]
    /\ UNCHANGED <<storeVars, hubVars, alertVars, wire, handler>>

\* consumer.go 44-48: the select at the top of the loop returns ctx.Err()
\* if the context is done and goes on to FetchMessage if not
ConsumerSelect ==
    /\ consumer.pc = "loop"
    /\ consumer' = IF consumer.ctx = "cancelled"
                   THEN [consumer EXCEPT !.pc = "returned", !.err = <<Canceled>>]
                   ELSE [consumer EXCEPT !.pc = "fetch"]
    /\ UNCHANGED <<storeVars, hubVars, alertVars, wire, handler>>

\* consumer.go 49: the pending FetchMessage returns the next message
ConsumerFetchMessage(value) ==
    /\ consumer.pc = "fetch"
    /\ consumer.offset < MaxMessages
    /\ consumer' = [consumer EXCEPT !.pc = "decode",
                                    !.offset = @ + 1,
                                    !.msg = <<value>>,
                                    !.fetched = Append(@, value),
                                    !.calls = Append(@, <<>>),
                                    !.commits = Append(@, 0)]
    /\ UNCHANGED <<storeVars, hubVars, alertVars, wire, handler>>

\* consumer.go 51: what ConsumeEvents returns when FetchMessage failed
ReturnFetchError(err) == Errorf("failed to fetch message", err)

\* consumer.go 49-52: the context is cancelled while FetchMessage is
\* pending (or before it is called); FetchMessage returns ctx.Err() and
\* ConsumeEvents returns
ConsumerFetchCancelled ==
    /\ consumer.pc = "fetch"
    /\ consumer.ctx = "cancelled"
    /\ consumer' = [consumer EXCEPT !.pc = "returned",
                                    !.err = <<ReturnFetchError(Canceled)>>]
    /\ UNCHANGED <<storeVars, hubVars, alertVars, wire, handler>>

\* cmd/consumer main.go 165-171: main looks at the error ConsumeEvents
\* returned
MainExit ==
    /\ consumer.pc = "returned"
    /\ consumer.exit = ""
    /\ consumer' = [consumer EXCEPT
                       !.exit = IF Equal(consumer.err[1], Canceled)
                                THEN "stopped gracefully" ELSE "fatal"]
    /\ UNCHANGED <<storeVars, hubVars, alertVars, wire, handler>>

FetchMessage == \E value \in Values(now) : ConsumerFetchMessage(value)

NextShutdown ==
    \/ ContextCancel
    \/ ConsumerSelect
    \/ FetchMessage
    \/ ConsumerFetchCancelled
    \/ ConsumerDecode
    \/ ConsumerCommitUndecoded
    \/ Handle
    \/ ConsumerCommit
    \/ MainExit

SpecShutdown == Init /\ [][NextShutdown]_vars

-----------------------------------------------------------------------------
(* Events with and without their optional fields, and of an unknown type *)

FieldEvents(t) ==
    {AnalyticsEvent("f1", PageView, t, "u1", "s1", HomeUrl,
                    Ref("https://www.google.com/search", TRUE, <<"www", "google", "com">>),
                    <<"Mozilla", "Chrome", "Mobile", "Safari">>, <<>>, NoMeta),
     AnalyticsEvent("f2", PageView, t, "", "", AboutUrl, NoRef, <<>>, <<>>, NoMeta),
     AnalyticsEvent("f3", Session, t, "u2", "", HomeUrl, NoRef, <<>>, <<>>,
                    ("device" :> [str |-> "tablet"]) @@ ("browser" :> [str |-> "Opera"])),
     AnalyticsEvent("f4", "purchase", t, "", "", HomeUrl, NoRef, <<>>, <<>>, NoMeta)}

IngestFields ==
    /\ Len(ingestLog) < MaxIngestFields
    /\ \E e \in FieldEvents(now) : ProcessEventCall(e)

NextFields ==
    \/ IngestFields
    \/ ClockCleanup

SpecFields == Init /\ [][NextFields]_vars

-----------------------------------------------------------------------------
(* Alert configurations checked against a store that is being filled *)

AlertConfig(name, type, metric, threshold, operator, enabled) ==
    [Name |-> name, Type |-> type, Metric |-> metric, Threshold |-> threshold,
     Operator |-> operator, Enabled |-> enabled, WindowMinutes |-> 5]

AlertRules ==
    {AlertConfig("many events", "traffic", "total_events", 2, "gt", TRUE),
     AlertConfig("few events", "traffic", "total_events", 2, "lt", TRUE),
     AlertConfig("one user", "traffic", "unique_users", 1, "eq", TRUE),
     AlertConfig("switched off", "error", "total_events", 0, "gt", FALSE),
     AlertConfig("slow pages", "performance", "average_load_time", 1000, "gt", TRUE),
     AlertConfig("bounce rate", "traffic", "bounce_rate", 1, "lt", TRUE)}

AlertEvents(t) ==
    {AnalyticsEvent("a1", PageView, t, "u1", "s1", HomeUrl, NoRef, <<>>, <<>>,
                    "load_time" :> [num |-> 1200]),
     AnalyticsEvent("a2", Click, t, "u2", "", HomeUrl, NoRef, <<>>, <<>>, NoMeta)}

IngestAlerts ==
    /\ Len(ingestLog) < MaxIngestAlerts
    /\ \E e \in AlertEvents(now) : ProcessEventCall(e)

AddRule ==
    /\ Len(alerts) < MaxRules
    /\ \E config \in AlertRules : AddAlert(config)

NextAlerts ==
    \/ IngestAlerts
    \/ AddRule
    \/ CheckAlertsCall

SpecAlerts == Init /\ [][NextAlerts]_vars

-----------------------------------------------------------------------------
(* Page views spread over more pages than the snapshot lists *)

PagePaths ==
    <<"/p01", "/p02", "/p03", "/p04", "/p05", "/p06", "/p07", "/p08", "/p09",
      "/p10", "/p11", "/p12", "/p13", "/p14">>

\* the page of the n-th event of the page runs: page i is viewed i times,
\* one page after the other
PageOf(n) == CHOOSE i \in 1..MaxPages : (i - 1) * i < 2 * n /\ 2 * n <= i * (i + 1)

PageEvent(n, t) ==
    AnalyticsEvent(n, PageView, t, "", "", Url("example.com", PagePaths[PageOf(n)]),
                   NoRef, <<>>, <<>>, NoMeta)

IngestPages ==
    /\ 2 * Len(ingestLog) < MaxPages * (MaxPages + 1)
    /\ ProcessEventCall(PageEvent(Len(ingestLog) + 1, now))

\* a call of GetSnapshot that no writer overlaps: RLock, the body, RUnlock
GetSnapshotCall(r) ==
    /\ rpc[r] = "idle"
    /\ CanRLock(mu)
    /\ \E s \in GetSnapshot(analytics, now) : snap' = [snap EXCEPT ![r] = <<s>>]
    /\ UNCHANGED <<now, analytics, mu, wpc, warg, rpc, snapAt, ingestLog, hist>>
    /\ UNCHANGED <<hubVars, consumer, alertVars, wire, handler>>

RenderPages == GetSnapshotCall("r1")

NextPages ==
    \/ IngestPages
    \/ RenderPages

SpecPages == Init /\ [][NextPages]_vars

-----------------------------------------------------------------------------
(* Users and page visitors *)

\* the events of the visitor runs at time t: page views of one page by two
\* users and by nobody, a click of a third user, a page view of a second page
UserEvents(t) ==
    {AnalyticsEvent("v1", PageView, t, "u1", "", HomeUrl, NoRef, <<>>, <<>>, NoMeta),
     AnalyticsEvent("v2", PageView, t, "u2", "", HomeUrl, NoRef, <<>>, <<>>, NoMeta),
     AnalyticsEvent("v3", PageView, t, "", "", HomeUrl, NoRef, <<>>, <<>>, NoMeta),
     AnalyticsEvent("v4", Click, t, "u3", "", AboutUrl, NoRef, <<>>, <<>>, NoMeta),
     AnalyticsEvent("v5", PageView, t, "u1", "", AboutUrl, NoRef, <<>>, <<>>, NoMeta)}

IngestUsers ==
    /\ Len(ingestLog) < MaxIngestUsers
    /\ \E e \in UserEvents(now) : ProcessEventCall(e)

RenderUsers == GetSnapshotCall("r1")

NextUsers ==
    \/ IngestUsers
    \/ RenderUsers
    \/ ClockStore

SpecUsers == Init /\ [][NextUsers]_vars

-----------------------------------------------------------------------------
(* Snapshots held by their callers while the store goes on *)

\* GetSnapshot that sorts the load times where they are
StoreAfterGetSnapshot_SortInPlace(a) ==
    [a EXCEPT !.LoadTimes = SortSeq(a.LoadTimes, <)]

\* the store GetSnapshot leaves behind: it and its helpers read the fields of
\* s.analytics and assign none (service.go 188-222, 226-397; the median is
\* computed on a copy, 373-375)
StoreAfterGetSnapshot(a) == a

\* a snapshot whose maps are the maps of the store
HeldSnapshot_SharedMaps(s, a) ==
    [s EXCEPT !.EventsByType = a.EventsByType,
              !.DeviceStats = a.DeviceTypes,
              !.BrowserStats = a.BrowserTypes]

\* snapshot s in the hands of its caller once the store has become a: its
\* maps were made by GetSnapshot and filled by copying (service.go 196-219),
\* its slices were made by the helpers, so no write to the store reaches it
HeldSnapshot(s, a) == s

\* the events of the render runs at time t
RenderEvents(t) ==
    StoreEvents(t) \cup
    {AnalyticsEvent("e4", PageView, t, "u3", "s2", AboutUrl, NoRef,
                    <<"Mozilla", "Firefox">>, <<>>, "load_time" :> [num |-> 800])}

\* a call of ProcessEvent that no other caller overlaps, while callers of
\* GetSnapshot hold the snapshots they got
IngestRender ==
    /\ Len(ingestLog) < MaxIngestRender
    /\ CanLock(mu)
    /\ \A w \in Writers : wpc[w] = "idle"
    /\ \E e \in RenderEvents(now) :
          /\ analytics' = ProcessEvent(analytics, e, now)
          /\ ingestLog' = Append(ingestLog, e)
    /\ snap' = [r \in Readers |->
                   IF snap[r] = <<>> THEN <<>>
                   ELSE <<HeldSnapshot(snap[r][1], analytics')>>]
    /\ UNCHANGED <<now, mu, wpc, warg, rpc, snapAt, hist>>
    /\ UNCHANGED <<hubVars, consumer, alertVars, wire, handler>>

\* a call of GetSnapshot by r that no writer overlaps, with the store it
\* leaves behind
GetSnapshotEffect(r) ==
    /\ rpc[r] = "idle"
    /\ CanRLock(mu)
    /\ \E s \in GetSnapshot(analytics, now) : snap' = [snap EXCEPT ![r] = <<s>>]
    /\ analytics' = StoreAfterGetSnapshot(analytics)
    /\ UNCHANGED <<now, mu, wpc, warg, rpc, snapAt, ingestLog, hist>>
    /\ UNCHANGED <<hubVars, consumer, alertVars, wire, handler>>

RenderEffect == \E r \in Readers : GetSnapshotEffect(r)

NextRender ==
    \/ IngestRender
    \/ RenderEffect
    \/ ClockStore

SpecRender == Init /\ [][NextRender]_vars

-----------------------------------------------------------------------------
(* Alert evaluations repeated while the clock runs *)

\* the clock advances by an hour
ClockRefire ==
    /\ now + Hour <= StartClock + MaxAdvanceRefire
    /\ now' = now + Hour
    /\ UNCHANGED <<analytics, mu, wpc, warg, rpc, snap, snapAt, ingestLog, hist>>
    /\ UNCHANGED <<hubVars, consumer, alertVars, wire, handler>>

\* the configurations on total_events
RefireRules == {config \in AlertRules : config.Metric = "total_events"}

AddRefireRule ==
    /\ Len(alerts) < MaxRules
    /\ \E config \in RefireRules : AddAlert(config)

NextRefire ==
    \/ IngestAlerts
    \/ AddRefireRule
    \/ CheckAlertsCall
    \/ ClockRefire

SpecRefire == Init /\ [][NextRefire]_vars


-----------------------------------------------------------------------------
(* Calls of ProcessEvent around the 5-minute period of the cleanup *)

\* the events of the run at time t: a session event, an event of a session
\* whose timestamp is 31 minutes in the past, an event whose timestamp is
\* older than the hours the cleanup keeps
PeriodEvents(t) ==
    {AnalyticsEvent("e1", Session, t, "u1", "s1", HomeUrl, NoRef, <<>>, <<>>, NoMeta),
     AnalyticsEvent("e2", Click, t - (SessionTTL + 1), "u2", "s2", HomeUrl, NoRef,
                    <<>>, <<>>, NoMeta),
     AnalyticsEvent("e3", PageView, t - (HourlyKeep + 2 * Hour), "u1", "", AboutUrl,
                    NoRef, <<>>, <<>>, NoMeta)}

IngestPeriod ==
    /\ Len(ingestLog) < MaxIngestPeriod
    /\ \E e \in PeriodEvents(now) : ProcessEventCall(e)

\* the clock advances by less than the period, by the period, by more
ClockPeriod ==
    /\ \E d \in {1, CleanupEvery, CleanupEvery + 1} :
          /\ now + d <= StartClock + MaxAdvancePeriod
          /\ now' = now + d
    /\ UNCHANGED <<analytics, mu, wpc, warg, rpc, snap, snapAt, ingestLog, hist>>
    /\ UNCHANGED <<hubVars, consumer, alertVars, wire, handler>>

NextPeriod ==
    \/ IngestPeriod
    \/ ClockPeriod

SpecPeriod == Init /\ [][NextPeriod]_vars

-----------------------------------------------------------------------------
(* Sessions: calls of ProcessEvent, cleanup passes and calls of GetSnapshot *)

RenderSessions == GetSnapshotCall("r1")

\* the clock advances once after construction and once after each pass, by
\* enough for the next call to run the cleanup
ClockSessions ==
    /\ now = analytics.LastCleanup
    /\ \E d \in {CleanupEvery + 1, SessionTTL + 1} :
          /\ now + d <= StartClock + MaxAdvanceCleanup
          /\ now' = now + d
    /\ UNCHANGED <<analytics, mu, wpc, warg, rpc, snap, snapAt, ingestLog, hist>>
    /\ UNCHANGED <<hubVars, consumer, alertVars, wire, handler>>

NextSessions ==
    \/ IngestCleanup
    \/ ClockSessions
    \/ RenderSessions

SpecSessions == Init /\ [][NextSessions]_vars

-----------------------------------------------------------------------------
(* Agent strings and session metadata *)

\* the agent strings of the run, word by word
Agents ==
    {<<"Mozilla", "Chrome", "Safari">>,
     <<"Mozilla", "Safari", "Mobile", "iPhone">>,
     <<"Mozilla", "Firefox", "Android", "Tablet">>,
     <<"Mozilla", "Safari", "Chrome", "Edge">>,
     <<"Mozilla", "Safari", "iPad">>,
     <<"edge", "tablet">>,
     <<"curl">>}

\* the metadata of the run: none, a device and a browser that the agent
\* rules also know, a device and a browser they do not know, a device
\* alone, a device that is not a string
Metadatas ==
    {NoMeta,
     ("device" :> [str |-> "Mobile"]) @@ ("browser" :> [str |-> "Chrome"]),
     ("device" :> [str |-> "tv"]) @@ ("browser" :> [str |-> "Opera"]),
     "device" :> [str |-> "Desktop"],
     ("device" :> [num |-> 7]) @@ ("browser" :> [str |-> ""])}

AgentEvents(t) ==
    {AnalyticsEvent("e", type, t, "u1", "s1", HomeUrl, NoRef, agent, <<>>, meta) :
        type \in {PageView, Session}, agent \in Agents \cup {<<>>}, meta \in Metadatas}

IngestAgents ==
    /\ Len(ingestLog) < MaxIngestAgents
    /\ \E e \in AgentEvents(now) : ProcessEventCall(e)

NextAgents ==
    \/ IngestAgents

SpecAgents == Init /\ [][NextAgents]_vars

-----------------------------------------------------------------------------
(* The hourly series *)

\* the events of the run at time t: dated now, 23 hours ago (the first hour
\* of the series), 24 hours ago (the hour before it) and an hour ahead
HourEvents(t) ==
    {AnalyticsEvent("e", Click, ts, "", "", HomeUrl, NoRef, <<>>, <<>>, NoMeta) :
        ts \in {t, t - 23 * Hour, t - 24 * Hour, t + Hour}}

IngestHours ==
    /\ Len(ingestLog) < MaxIngestHours
    /\ \E e \in HourEvents(now) : ProcessEventCall(e)

\* the clock advances by 50 minutes: into the next hour at the first
\* advance, within the hour at the second
ClockHours ==
    /\ now + 50 <= StartClock + MaxAdvanceHours
    /\ now' = now + 50
    /\ UNCHANGED <<analytics, mu, wpc, warg, rpc, snap, snapAt, ingestLog, hist>>
    /\ UNCHANGED <<hubVars, consumer, alertVars, wire, handler>>

RenderHours == GetSnapshotCall("r1")

NextHours ==
    \/ IngestHours
    \/ ClockHours
    \/ RenderHours

SpecHours == Init /\ [][NextHours]_vars

-----------------------------------------------------------------------------
(* Alert configurations that are switched off, name no metric of the
   snapshot or carry an operator the code does not know *)

TotalRules ==
    {AlertConfig("switched off", "traffic", "total_events", 0, "gt", FALSE),
     AlertConfig("no metric, below", "traffic", "bounce_rate", 1, "lt", TRUE),
     AlertConfig("no metric, above", "error", "bounce_rate", 0, "gt", TRUE),
     AlertConfig("at least", "traffic", "total_events", 0, "gte", TRUE),
     AlertConfig("upper case", "traffic", "total_events", 0, "GT", TRUE)}

AddTotalRule ==
    /\ Len(alerts) < MaxTotalRules
    /\ \E config \in TotalRules : AddAlert(config)

NextTotal ==
    \/ IngestAlerts
    \/ AddTotalRule
    \/ CheckAlertsCall

SpecTotal == Init /\ [][NextTotal]_vars
-----------------------------------------------------------------------------
(* Concurrent callers of ProcessEvent, GetSnapshot, CheckAlerts and AddAlert,
   with the waiting of sync.RWMutex *)

\* ProcessEvent is called with event e: Lock (service.go 32) waits for rw.w
ProcessEventEnter(w, e) ==
    /\ wpc[w] = "idle"
    /\ mu' = LockCall(mu, w)
    /\ wpc' = [wpc EXCEPT ![w] = "called"]
    /\ warg' = [warg EXCEPT ![w] = <<e>>]
    /\ UNCHANGED <<now, analytics, rpc, snap, snapAt, ingestLog, hist>>
    /\ UNCHANGED <<hubVars, consumer, alertVars, wire, handler>>

\* Lock gets rw.w and announces the writer to the readers
ProcessEventAnnounce(w) ==
    /\ wpc[w] = "called"
    /\ CanAnnounce(mu, w)
    /\ mu' = LockAnnounce(mu, w)
    /\ wpc' = [wpc EXCEPT ![w] = "waiting"]
    /\ UNCHANGED <<now, analytics, warg, rpc, snap, snapAt, ingestLog, hist>>
    /\ UNCHANGED <<hubVars, consumer, alertVars, wire, handler>>

\* Lock returns: the readers that held the lock have left
ProcessEventAcquire(w) ==
    /\ wpc[w] = "waiting"
    /\ CanAcquire(mu, w)
    /\ mu' = LockAcquire(mu, w)
    /\ wpc' = [wpc EXCEPT ![w] = "locked"]
    /\ ingestLog' = Append(ingestLog, warg[w][1])
    /\ UNCHANGED <<now, analytics, warg, rpc, snap, snapAt, hist>>
    /\ UNCHANGED <<hubVars, consumer, alertVars, wire, handler>>

\* the body of ProcessEvent, the deferred Unlock and the return
\* (service.go 33-87)
ProcessEventUnlock(w) ==
    /\ wpc[w] = "locked"
    /\ analytics' = ProcessEvent(analytics, warg[w][1], now)
    /\ mu' = Unlock(mu)
    /\ wpc' = [wpc EXCEPT ![w] = "idle"]
    /\ warg' = [warg EXCEPT ![w] = <<>>]
    /\ hist' = Append(hist, analytics')
    /\ UNCHANGED <<now, rpc, snap, snapAt, ingestLog>>
    /\ UNCHANGED <<hubVars, consumer, alertVars, wire, handler>>

\* GetSnapshot is called: RLock (service.go 189) returns at once or waits
\* for the announced writer
GetSnapshotEnter(r) ==
    /\ rpc[r] = "idle"
    /\ mu' = RLock(mu, r)
    /\ rpc' = [rpc EXCEPT ![r] = IF r \in mu'.r THEN "rlocked" ELSE "blocked"]
    /\ UNCHANGED <<now, analytics, wpc, warg, snap, snapAt, ingestLog, hist>>
    /\ UNCHANGED <<hubVars, consumer, alertVars, wire, handler>>

\* the writer's Unlock has let the reader in: RLock returns
GetSnapshotWake(r) ==
    /\ rpc[r] = "blocked"
    /\ r \in mu.r
    /\ rpc' = [rpc EXCEPT ![r] = "rlocked"]
    /\ UNCHANGED <<now, analytics, mu, wpc, warg, snap, snapAt, ingestLog, hist>>
    /\ UNCHANGED <<hubVars, consumer, alertVars, wire, handler>>

\* CheckAlerts is called: s.mu.RLock (service.go 426)
CheckAlertsEnter(k) ==
    /\ svc.pc[k] = "idle"
    /\ LET m == RLock(svc.mu, k)
       IN svc' = [svc EXCEPT !.mu = m,
                             !.pc[k] = IF k \in m.r THEN "rlocked" ELSE "blocked"]
    /\ UNCHANGED <<storeVars, hubVars, consumer, alerts, checked, wire, handler>>

\* AddAlert's Unlock has let the caller in: s.mu.RLock returns
CheckAlertsWake(k) ==
    /\ svc.pc[k] = "blocked"
    /\ k \in svc.mu.r
    /\ svc' = [svc EXCEPT !.pc[k] = "rlocked"]
    /\ UNCHANGED <<storeVars, hubVars, consumer, alerts, checked, wire, handler>>

\* CheckAlerts calls GetSnapshot with s.mu read-held (service.go 430, 189)
CheckAlertsSnapshotEnter(k) ==
    /\ svc.pc[k] = "rlocked"
    /\ mu' = RLock(mu, k)
    /\ svc' = [svc EXCEPT !.pc[k] = IF k \in mu'.r THEN "rendering" ELSE "rblocked"]
    /\ UNCHANGED <<now, analytics, wpc, warg, rpc, snap, snapAt, ingestLog, hist>>
    /\ UNCHANGED <<hubVars, consumer, alerts, checked, wire, handler>>

\* the writer of the store has let the caller in
CheckAlertsSnapshotWake(k) ==
    /\ svc.pc[k] = "rblocked"
    /\ k \in mu.r
    /\ svc' = [svc EXCEPT !.pc[k] = "rendering"]
    /\ UNCHANGED <<storeVars, hubVars, consumer, alerts, checked, wire, handler>>

\* GetSnapshot renders, releases the store's lock and returns to CheckAlerts
\* (service.go 190-222)
CheckAlertsSnapshot(k) ==
    /\ svc.pc[k] = "rendering"
    /\ \E s \in GetSnapshot(analytics, now) :
          svc' = [svc EXCEPT !.pc[k] = "evaluating",
                             !.snapshot[k] = <<[s |-> s, store |-> analytics, at |-> now]>>]
    /\ mu' = RUnlock(mu, k)
    /\ UNCHANGED <<now, analytics, wpc, warg, rpc, snap, snapAt, ingestLog, hist>>
    /\ UNCHANGED <<hubVars, consumer, alerts, checked, wire, handler>>

\* CheckAlerts goes through the rules, releases s.mu and returns
\* (service.go 427, 432-455)
CheckAlertsReturn(k) ==
    /\ svc.pc[k] = "evaluating"
    /\ LET got == svc.snapshot[k][1]
       IN checked' = <<[rules |-> alerts, store |-> got.store, at |-> got.at,
                        out |-> CheckAlerts(alerts, got.s, got.at)]>>
    /\ svc' = [svc EXCEPT !.mu = RUnlock(@, k), !.pc[k] = "idle",
                          !.snapshot[k] = <<>>]
    /\ UNCHANGED <<storeVars, hubVars, consumer, alerts, wire, handler>>

\* AddAlert is called with config: s.mu.Lock (service.go 419) waits for rw.w
AddAlertEnter(a, config) ==
    /\ svc.pc[a] = "idle"
    /\ svc' = [svc EXCEPT !.mu = LockCall(@, a), !.pc[a] = "called",
                          !.arg[a] = <<config>>]
    /\ UNCHANGED <<storeVars, hubVars, consumer, alerts, checked, wire, handler>>

AddAlertAnnounce(a) ==
    /\ svc.pc[a] = "called"
    /\ CanAnnounce(svc.mu, a)
    /\ svc' = [svc EXCEPT !.mu = LockAnnounce(@, a), !.pc[a] = "waiting"]
    /\ UNCHANGED <<storeVars, hubVars, consumer, alerts, checked, wire, handler>>

AddAlertAcquire(a) ==
    /\ svc.pc[a] = "waiting"
    /\ CanAcquire(svc.mu, a)
    /\ svc' = [svc EXCEPT !.mu = LockAcquire(@, a), !.pc[a] = "locked"]
    /\ UNCHANGED <<storeVars, hubVars, consumer, alerts, checked, wire, handler>>

\* the append, the deferred Unlock and the return (service.go 420-421)
AddAlertUnlock(a) ==
    /\ svc.pc[a] = "locked"
    /\ alerts' = Append(alerts, svc.arg[a][1])
    /\ svc' = [svc EXCEPT !.mu = Unlock(@), !.pc[a] = "idle", !.arg[a] = <<>>]
    /\ UNCHANGED <<storeVars, hubVars, consumer, checked, wire, handler>>

\* the calls of ProcessEvent that have begun
Ingesting == {w \in Writers : wpc[w] \in {"called", "waiting"}}

LockEvent(t) ==
    AnalyticsEvent("e1", PageView, t, "u1", "s1", HomeUrl, NoRef, <<>>, <<>>, NoMeta)

LockRule == AlertConfig("many events", "traffic", "total_events", 1, "gt", TRUE)

IngestEnter ==
    \E w \in Writers :
        /\ Len(ingestLog) + Cardinality(Ingesting) < MaxIngestLocks
        /\ ProcessEventEnter(w, LockEvent(now))

IngestAnnounce == \E w \in Writers : ProcessEventAnnounce(w)

IngestAcquire == \E w \in Writers : ProcessEventAcquire(w)

IngestUnlock == \E w \in Writers : ProcessEventUnlock(w)

\* one caller of GetSnapshot besides the callers of CheckAlerts
Renderers == {"r1"}

RenderEnter == \E r \in Renderers : GetSnapshotEnter(r)

RenderWake == \E r \in Renderers : GetSnapshotWake(r)

CheckEnter == \E k \in Checkers : CheckAlertsEnter(k)

CheckWake == \E k \in Checkers : CheckAlertsWake(k)

CheckSnapshotEnter == \E k \in Checkers : CheckAlertsSnapshotEnter(k)

CheckSnapshotWake == \E k \in Checkers : CheckAlertsSnapshotWake(k)

CheckSnapshot == \E k \in Checkers : CheckAlertsSnapshot(k)

CheckReturn == \E k \in Checkers : CheckAlertsReturn(k)

AddEnter ==
    \E a \in Adders :
        /\ Len(alerts) < MaxAddLocks
        /\ AddAlertEnter(a, LockRule)

AddAnnounce == \E a \in Adders : AddAlertAnnounce(a)

AddAcquire == \E a \in Adders : AddAlertAcquire(a)

AddUnlock == \E a \in Adders : AddAlertUnlock(a)

NextLocks ==
    \/ IngestEnter
    \/ IngestAnnounce
    \/ IngestAcquire
    \/ IngestUnlock
    \/ RenderEnter
    \/ RenderWake
    \/ RenderReturn
    \/ CheckEnter
    \/ CheckWake
    \/ CheckSnapshotEnter
    \/ CheckSnapshotWake
    \/ CheckSnapshot
    \/ CheckReturn
    \/ AddEnter
    \/ AddAnnounce
    \/ AddAcquire
    \/ AddUnlock

\* every goroutine that can take a step takes one; a caller that waits for
\* the writers' mutex rw.w gets it (sync.Mutex hands it over to a waiter
\* that has waited for 1 ms); nobody is obliged to begin a call
FairLocks ==
    /\ \A w \in Writers :
          /\ WF_vars(ProcessEventAnnounce(w))
          /\ WF_vars(ProcessEventAcquire(w))
          /\ WF_vars(ProcessEventUnlock(w))
    /\ \A r \in Renderers :
          /\ WF_vars(GetSnapshotWake(r))
          /\ WF_vars(GetSnapshotReturn(r))
    /\ \A k \in Checkers :
          /\ WF_vars(CheckAlertsWake(k))
          /\ WF_vars(CheckAlertsSnapshotEnter(k))
          /\ WF_vars(CheckAlertsSnapshotWake(k))
          /\ WF_vars(CheckAlertsSnapshot(k))
          /\ WF_vars(CheckAlertsReturn(k))
    /\ \A a \in Adders :
          /\ WF_vars(AddAlertAnnounce(a))
          /\ WF_vars(AddAlertAcquire(a))
          /\ WF_vars(AddAlertUnlock(a))

SpecLocks == Init /\ [][NextLocks]_vars /\ FairLocks

-----------------------------------------------------------------------------
(* Server.handleEvent of cmd/producer/main.go: publish, ingest, broadcast *)

\* a request body json.Decode rejects: it holds no event
Malformed == <<>>

\* the zero time.Time
ZeroTime == 0

\* a request: its method and its body, Malformed or the one event
\* json.Decode finds in it
Request(method, body) == [Method |-> method, Body |-> body]

\* uuid.New().String() in the handler of request n
NewUUID(n) ==
    <<"uuid-1", "uuid-2", "uuid-3", "uuid-4", "uuid-5", "uuid-6", "uuid-7", "uuid-8">>[n]

\* main.go 55-60: an event without id gets a new UUID, an event with the
\* zero timestamp gets time.Now()
SetIDAndTimestamp(e, n, t) ==
    [e EXCEPT !.ID = IF @ = "" THEN NewUUID(n) ELSE @,
              !.Timestamp = IF @ = ZeroTime THEN t ELSE @]

\* the response written for request n, and the request
Respond(n, r, status) == [n |-> n, request |-> r, status |-> status]

\* a call the handler of request n made
Call(op, n) == [op |-> op, n |-> n]

\* a handler that goes on to ingest whatever SendEvent returned
handleEventEnter_IgnoreSendError(h, r, ok) ==
    LET n == Len(handler.requests) + Cardinality({g \in Handlers : handler.pc[g] # "idle"}) + 1
        event == SetIDAndTimestamp(r.Body[1], n, now)
    IN /\ handler.pc[h] = "idle"
       /\ IF r.Method # "POST"
          THEN handler' = [handler EXCEPT !.requests = Append(@, Respond(n, r, 405))]
          ELSE IF r.Body = Malformed
          THEN handler' = [handler EXCEPT !.requests = Append(@, Respond(n, r, 400))]
          ELSE handler' = [handler EXCEPT
                              !.topic = IF ok THEN Append(@, [Key |-> event.ID, Value |-> event])
                                        ELSE @,
                              !.calls = IF ok THEN Append(@, Call("publish", n)) ELSE @,
                              !.pc[h] = "process",
                              !.event[h] = <<event>>,
                              !.serving[h] = n]
       /\ UNCHANGED <<storeVars, hubVars, consumer, alertVars, wire>>

\* main.go 42-67: the method check, the decoding of the body, the id and
\* the timestamp, SendEvent (producer.go 33-51), whose WriteMessages
\* succeeds (ok) or fails; every failure answers and returns
handleEventEnter(h, r, ok) ==
    LET n == Len(handler.requests) + Cardinality({g \in Handlers : handler.pc[g] # "idle"}) + 1
        event == SetIDAndTimestamp(r.Body[1], n, now)
    IN /\ handler.pc[h] = "idle"
       /\ IF r.Method # "POST"
          THEN handler' = [handler EXCEPT !.requests = Append(@, Respond(n, r, 405))]
          ELSE IF r.Body = Malformed
          THEN handler' = [handler EXCEPT !.requests = Append(@, Respond(n, r, 400))]
          ELSE IF ~ok
          THEN handler' = [handler EXCEPT !.requests = Append(@, Respond(n, r, 500))]
          ELSE handler' = [handler EXCEPT
                              !.topic = Append(@, [Key |-> event.ID, Value |-> event]),
                              !.calls = Append(@, Call("publish", n)),
                              !.pc[h] = "process",
                              !.event[h] = <<event>>,
                              !.serving[h] = n]
       /\ UNCHANGED <<storeVars, hubVars, consumer, alertVars, wire>>

\* main.go 70-72: ProcessEvent, under the store's lock
handleEventProcess(h) ==
    /\ handler.pc[h] = "process"
    /\ CanLock(mu)
    /\ analytics' = ProcessEvent(analytics, handler.event[h][1], now)
    /\ ingestLog' = Append(ingestLog, handler.event[h][1])
    /\ handler' = [handler EXCEPT !.pc[h] = "broadcast",
                                  !.calls = Append(@, Call("ingest", handler.serving[h]))]
    /\ UNCHANGED <<now, mu, wpc, warg, rpc, snap, snapAt, hist>>
    /\ UNCHANGED <<hubVars, consumer, alertVars, wire>>

\* main.go 75-82: BroadcastEvent (hub.go 149-170), then the 202 response
handleEventBroadcast(h) ==
    /\ handler.pc[h] = "broadcast"
    /\ broadcast' = trySendBroadcast(broadcast, Payload("real_time_event", nextId))
    /\ nextId' = nextId + 1
    /\ handler' = [handler EXCEPT
                      !.pc[h] = "idle",
                      !.event[h] = <<>>,
                      !.serving[h] = 0,
                      !.calls = Append(@, Call("broadcast", handler.serving[h])),
                      !.requests = Append(@, Respond(handler.serving[h],
                                                      Request("POST", handler.event[h]), 202))]
    /\ UNCHANGED <<clients, send, closes, bpc, barg, wp, wbuf, rp, conn, written,
                   enq, dequeued, removedBy, ticked, counter>>
    /\ UNCHANGED <<storeVars, consumer, alertVars, wire>>

\* the bodies posted: an event without id and timestamp, a body that is no
\* JSON
Bodies ==
    {<<AnalyticsEvent("", PageView, ZeroTime, "u1", "s1", HomeUrl, NoRef, <<>>, <<>>, NoMeta)>>,
     Malformed}

Requests ==
    {Request("POST", body) : body \in Bodies}
        \cup {Request("GET", Malformed)}

HandlerEnter ==
    /\ Len(handler.requests) + Cardinality({g \in Handlers : handler.pc[g] # "idle"})
          < MaxRequests
    /\ \E h \in Handlers : \E r \in Requests : \E ok \in BOOLEAN :
          handleEventEnter(h, r, ok)

HandlerProcess == \E h \in Handlers : handleEventProcess(h)

HandlerBroadcast == \E h \in Handlers : handleEventBroadcast(h)

NextHandler ==
    \/ HandlerEnter
    \/ HandlerProcess
    \/ HandlerBroadcast
    \/ HubBroadcast

SpecHandler == Init /\ [][NextHandler]_vars
-----------------------------------------------------------------------------
(* encoding/json on the event structs of pkg/models *)

\* a struct field: its Go name, the key of its json tag, its type and
\* whether the tag says omitempty
Field(name, key, type, omitempty) ==
    [name |-> name, key |-> key, type |-> type, omitempty |-> omitempty]

\* models.AnalyticsEvent (part_001 28-40)
AnalyticsEventFields ==
    <<Field("ID", "id", "string", FALSE),
      Field("Type", "type", "string", FALSE),
      Field("Timestamp", "timestamp", "time", FALSE),
      Field("UserID", "user_id", "string", FALSE),
      Field("SessionID", "session_id", "string", FALSE),
      Field("URL", "url", "string", FALSE),
      Field("Path", "path", "string", FALSE),
      Field("Referrer", "referrer", "string", TRUE),
      Field("UserAgent", "user_agent", "string", TRUE),
      Field("IPAddress", "ip_address", "string", TRUE),
      Field("Metadata", "metadata", "map", TRUE)>>

\* models.PageViewEvent (part_001 43-49): the fields after the embedded struct
PageViewEventFields ==
    <<Field("PageTitle", "page_title", "string", TRUE),
      Field("LoadTime", "load_time", "int", TRUE),
      Field("ScreenWidth", "screen_width", "int", TRUE),
      Field("ScreenHeight", "screen_height", "int", TRUE)>>

\* models.ClickEvent (part_001 52-59)
ClickEventFields ==
    <<Field("ElementID", "element_id", "string", TRUE),
      Field("ElementType", "element_type", "string", TRUE),
      Field("ElementText", "element_text", "string", TRUE),
      Field("XPosition", "x_position", "int", TRUE),
      Field("YPosition", "y_position", "int", TRUE)>>

\* models.SessionEvent (part_001 62-68)
SessionEventFields ==
    <<Field("Duration", "duration", "int", TRUE),
      Field("PageCount", "page_count", "int", TRUE),
      Field("Device", "device", "string", TRUE),
      Field("Browser", "browser", "string", TRUE)>>

VariantFields(kind) ==
    CASE kind = "PageViewEvent" -> PageViewEventFields
      [] kind = "ClickEvent" -> ClickEventFields
      [] kind = "SessionEvent" -> SessionEventFields
      [] OTHER -> <<>>

\* the fields json sees in a struct of the kind: those of the embedded
\* AnalyticsEvent are promoted
FieldsOf(kind) == AnalyticsEventFields \o VariantFields(kind)

\* a time.Time: the wall clock and the monotonic reading time.Now adds
Time(wall, mono) == [wall |-> wall, mono |-> mono]

ZeroValue(type) ==
    CASE type = "string" -> ""
      [] type = "int" -> 0
      [] type = "time" -> Time(0, 0)
      [] type = "map" -> <<>>

\* omitempty leaves out false, 0, "", nil and empty maps; a struct such as
\* time.Time is never left out
IsEmptyValue(type, value) ==
    CASE type = "string" -> value = ""
      [] type = "int" -> value = 0
      [] type = "time" -> FALSE
      [] type = "map" -> value = <<>>

\* the JSON text of a value: a string, a number, an RFC 3339 time (which
\* has no monotonic reading), an object
jsonEncodeValue(type, value) ==
    CASE type = "string" -> [str |-> value]
      [] type = "int" -> [num |-> value]
      [] type = "time" -> [rfc3339 |-> value.wall]
      [] type = "map" -> [obj |-> value]

jsonDecodeValue(type, j) ==
    CASE type = "string" -> j.str
      [] type = "int" -> j.num
      [] type = "time" -> Time(j.rfc3339, 0)
      [] type = "map" -> j.obj

\* the fields of the kind that json.Marshal writes for struct v
WrittenFields(kind, v) ==
    {i \in DOMAIN FieldsOf(kind) :
        LET f == FieldsOf(kind)[i]
        IN ~(f.omitempty /\ IsEmptyValue(f.type, v[f.name]))}

\* json.Marshal of struct v of the kind: the JSON object, key by key
jsonMarshal(kind, v) ==
    [k \in {FieldsOf(kind)[i].key : i \in WrittenFields(kind, v)} |->
        LET f == FieldsOf(kind)[CHOOSE i \in DOMAIN FieldsOf(kind) : FieldsOf(kind)[i].key = k]
        IN jsonEncodeValue(f.type, v[f.name])]

\* json.Unmarshal that looks for the Go name of a field and not for its tag
jsonUnmarshal_ByName(kind, object) ==
    [n \in {FieldsOf(kind)[i].name : i \in DOMAIN FieldsOf(kind)} |->
        LET f == FieldsOf(kind)[CHOOSE i \in DOMAIN FieldsOf(kind) : FieldsOf(kind)[i].name = n]
        IN IF f.name \in DOMAIN object
           THEN jsonDecodeValue(f.type, object[f.name])
           ELSE ZeroValue(f.type)]

\* json.Unmarshal of a JSON object into a zero struct of the kind: a key
\* that names no field is ignored, a field without key keeps its zero value
jsonUnmarshal(kind, object) ==
    [n \in {FieldsOf(kind)[i].name : i \in DOMAIN FieldsOf(kind)} |->
        LET f == FieldsOf(kind)[CHOOSE i \in DOMAIN FieldsOf(kind) : FieldsOf(kind)[i].name = n]
        IN IF f.key \in DOMAIN object
           THEN jsonDecodeValue(f.type, object[f.key])
           ELSE ZeroValue(f.type)]

\* the records that are encoded: with and without id, user and session, of
\* the four types and of an unknown one, stamped by time.Now or by a decoder
EventTypes == {PageView, Click, Session, UserEvent, "purchase"}

EventStructs ==
    {[ID |-> id, Type |-> type, Timestamp |-> Time(StartClock, mono),
      UserID |-> user, SessionID |-> session, URL |-> "https://example.com/home",
      Path |-> "/home", Referrer |-> ref, UserAgent |-> "", IPAddress |-> "",
      Metadata |-> meta]
     : id \in {"", "test-123"}, type \in EventTypes, mono \in {0, 1},
       user \in {"", "user-456"}, session \in {"", "session-789"},
       ref \in {"", "https://www.google.com/"},
       meta \in {<<>>, "test" :> [str |-> "value"]}}

Numbers == 0..MaxFieldValue

\* an event struct of the type with id, user and session set
BaseOf(type) ==
    [ID |-> "pv-123", Type |-> type, Timestamp |-> Time(StartClock, 1),
     UserID |-> "user-123", SessionID |-> "session-123",
     URL |-> "https://example.com/home", Path |-> "/home", Referrer |-> "",
     UserAgent |-> "", IPAddress |-> "", Metadata |-> <<>>]

PageViewStructs ==
    {BaseOf(PageView) @@ [PageTitle |-> title, LoadTime |-> load,
                           ScreenWidth |-> width, ScreenHeight |-> 0]
     : title \in {"", "Home Page"}, load \in Numbers, width \in Numbers}

ClickStructs ==
    {BaseOf(Click) @@ [ElementID |-> id, ElementType |-> "button", ElementText |-> "",
                       XPosition |-> x, YPosition |-> y]
     : id \in {"", "submit"}, x \in Numbers, y \in Numbers}

SessionStructs ==
    {BaseOf(Session) @@ [Duration |-> duration, PageCount |-> pages,
                         Device |-> device, Browser |-> ""]
     : duration \in Numbers, pages \in Numbers, device \in {"", "mobile"}}

StructsOf(kind) ==
    CASE kind = "AnalyticsEvent" -> EventStructs
      [] kind = "PageViewEvent" -> PageViewStructs
      [] kind = "ClickEvent" -> ClickStructs
      [] kind = "SessionEvent" -> SessionStructs

Kinds == {"AnalyticsEvent", "PageViewEvent", "ClickEvent", "SessionEvent"}

\* struct v of the kind is encoded and the value decoded into a struct of
\* the kind into (events_test.go 24-33, 84-93)
EncodeDecode(kind, v, into) ==
    /\ wire' = <<[kind |-> kind, sent |-> v, value |-> jsonMarshal(kind, v),
                  into |-> into, got |-> jsonUnmarshal(into, jsonMarshal(kind, v))]>>
    /\ UNCHANGED <<storeVars, hubVars, consumer, alertVars, handler>>

\* the round trip of the tests
RoundTrip == \E kind \in Kinds : \E v \in StructsOf(kind) : EncodeDecode(kind, v, kind)

\* Producer.SendEvent encodes a record with an id (producer.go 34, main.go
\* 52-54) and Consumer.ConsumeEvents decodes the value into an
\* AnalyticsEvent (consumer.go 54-55)
PublishConsume ==
    \E kind \in Kinds : \E v \in StructsOf(kind) :
        v.ID # "" /\ EncodeDecode(kind, v, "AnalyticsEvent")

NextCodec ==
    \/ RoundTrip
    \/ PublishConsume

SpecCodec == Init /\ [][NextCodec]_vars

-----------------------------------------------------------------------------
(* Properties of the store *)

\* the number of ProcessEvent calls that have returned
Completed == Len(hist) - 1

SumByType(m) == SumCounts(m, DOMAIN m)

\* C1: whenever no ingest is in progress total_events equals the number of
\* completed ProcessEvent calls and the events_by_type counts add up to it;
\* in every rendered snapshot the per-type counts add up to its total, which
\* is the number of ingests completed when it was rendered.
C1_TotalIsIngestCount ==
    /\ mu.w = {} =>
          /\ analytics.TotalEvents = Completed
          /\ SumByType(analytics.EventsByType) = analytics.TotalEvents
    /\ \A r \in Readers : snap[r] # <<>> =>
          /\ SumByType(snap[r][1].EventsByType) = snap[r][1].TotalEvents
          /\ snap[r][1].TotalEvents = snapAt[r]

C1_Witness ==
    /\ mu.w = {}
    /\ analytics.TotalEvents = MaxIngest
    /\ Cardinality(DOMAIN analytics.EventsByType) = 2
    /\ \E r \in Readers : snap[r] # <<>> /\ snap[r][1].TotalEvents = 2

\* s is one of the snapshots that store a renders to
IsSnapshotOf(s, a) == s \in GetSnapshot(a, s.Timestamp)

\* C8: every rendered snapshot is a rendering of the store as it was after
\* some whole number of completed ingests.
C8_SnapshotIsAtomic ==
    \A r \in Readers : snap[r] # <<>> =>
        \E i \in 1..Len(hist) : IsSnapshotOf(snap[r][1], hist[i])

\* a snapshot rendered between two ingests while a later ingest is half done
C8_Witness ==
    \E r \in Readers : \E w \in Writers :
        /\ snap[r] # <<>>
        /\ snap[r][1].TotalEvents = 1
        /\ snap[r][1].UniqueUsers = 1
        /\ wpc[w] = "track"
        /\ analytics.TotalEvents = 2

\* the fields of a snapshot other than its timestamp and the hourly series
\* that is anchored at it
SnapshotBody(s) ==
    [TotalEvents |-> s.TotalEvents, UniqueUsers |-> s.UniqueUsers,
     ActiveSessions |-> s.ActiveSessions, EventsByType |-> s.EventsByType,
     TopPages |-> s.TopPages, TrafficSources |-> s.TrafficSources,
     DeviceStats |-> s.DeviceStats, BrowserStats |-> s.BrowserStats,
     RealTimeEvents |-> s.RealTimeEvents,
     PerformanceMetrics |-> s.PerformanceMetrics]

\* C9: two snapshots rendered with no ingest between them are identical
\* apart from the timestamp.
C9_RenderIsIdempotent ==
    \A r1, r2 \in Readers :
        (snap[r1] # <<>> /\ snap[r2] # <<>> /\ snapAt[r1] = snapAt[r2]) =>
            SnapshotBody(snap[r1][1]) = SnapshotBody(snap[r2][1])

\* the last n elements of a sequence
LastN(s, n) == SubSeq(s, Len(s) - n + 1, Len(s))

\* C10: recent_events never holds more than 100 records, and whenever no
\* ingest is in progress it holds exactly the min(N, 100) most recently
\* ingested events in ingestion order.
C10_RecentEventsBounded ==
    /\ Len(analytics.Events) <= RecentCap
    /\ mu.w = {} =>
          analytics.Events = LastN(ingestLog, Min(Len(ingestLog), RecentCap))

\* 150 events ingested: the buffer holds events 51..150
C10_Witness ==
    /\ mu.w = {}
    /\ Len(ingestLog) = 150
    /\ Len(analytics.Events) = 100
    /\ analytics.Events[1].ID = 51
    /\ analytics.Events[100].ID = 150


-----------------------------------------------------------------------------
(* Properties of the hub *)

\* the step is the hub running its broadcast case
HubBroadcastStep == dequeued' = dequeued + 1

\* the select on c.send finds no room
Full(c) == Len(send[c]) >= SendCap

\* C2: a saturated subscriber never blocks the hub's broadcast case: the
\* case can always run, it removes every subscriber whose queue is full and
\* closes its queue, and every other registered subscriber gets the payload
\* appended to its unchanged queue and stays registered.
C2_FullQueueDoesNotBlock ==
    /\ [](broadcast # <<>> => ENABLED HubBroadcast)
    /\ [][(HubBroadcastStep /\ \E c \in clients : Full(c)) =>
            /\ \A c \in clients : Full(c) =>
                  c \notin clients' /\ closes'[c] = closes[c] + 1
            /\ \A c \in clients : ~Full(c) =>
                  /\ c \in clients'
                  /\ closes'[c] = closes[c]
                  /\ send'[c] = Append(send[c], Head(broadcast))
            /\ \A c \in Clients \ clients :
                  c \notin clients' /\ send'[c] = send[c] /\ closes'[c] = closes[c]]_vars

\* c1 was dropped on a full queue while c2 got the payload and stays
C2_Witness ==
    /\ removedBy["c1"] = "broadcast"
    /\ Len(send["c1"]) = SendCap
    /\ "c2" \in clients
    /\ closes["c2"] = 0
    /\ enq["c2"] # <<>>
    /\ enq["c2"][Len(enq["c2"])].id > enq["c1"][Len(enq["c1"])].id

\* C3 as stated: a subscriber whose queue is full when the hub broadcasts is
\* skipped and stays in the active set with its queue open.
C3_FullSubscriberStays ==
    [][HubBroadcastStep =>
         \A c \in clients : Full(c) =>
             c \in clients' /\ closes'[c] = 0 /\ send'[c] = send[c]]_vars

\* C3 amended: a subscriber whose queue is full when the hub broadcasts is
\* skipped (nothing is added to its queue) and is removed from the active
\* set, its queue closed by that very step.
C3_FullSubscriberRemoved ==
    [][HubBroadcastStep =>
         \A c \in clients : Full(c) =>
             /\ send'[c] = send[c]
             /\ enq'[c] = enq[c]
             /\ c \notin clients'
             /\ closes[c] = 0 /\ closes'[c] = 1
             /\ removedBy'[c] = "broadcast"]_vars

C3_Witness ==
    \E c \in Clients :
        /\ removedBy[c] = "broadcast"
        /\ c \notin clients
        /\ closes[c] = 1
        /\ Len(send[c]) = SendCap
        /\ Len(enq[c]) = SendCap

\* C4: a subscriber's queue is closed once, at the moment it leaves the
\* active set, and never again: whoever registered and is not in the set has
\* exactly one close, whoever is in the set has none.
C4_ClosedExactlyOnce ==
    \A c \in Clients :
        /\ closes[c] <= 1
        /\ closes[c] = 1 <=> (wp[c] # "off" /\ c \notin clients)

\* the hub dropped c on a full queue and later ran c's unregister
C4_Witness ==
    \E c \in Clients :
        /\ removedBy[c] = "broadcast"
        /\ rp[c] = "done"
        /\ closes[c] = 1

RECURSIVE Flatten(_)
Flatten(batches) ==
    IF batches = <<>> THEN <<>> ELSE Head(batches) \o Flatten(Tail(batches))

RECURSIVE IsSubseq(_, _)
IsSubseq(s, t) ==
    IF s = <<>> THEN TRUE
    ELSE IF t = <<>> THEN FALSE
    ELSE IF Head(s) = Head(t) THEN IsSubseq(Tail(s), Tail(t))
    ELSE IsSubseq(s, Tail(t))

\* C5: the payloads written to a subscriber's connection, batches unfolded,
\* are in the order in which the hub queued them for that subscriber, none
\* twice.
C5_WritesKeepQueueOrder ==
    \A c \in Clients :
        LET out == Flatten(written[c])
        IN /\ IsSubseq(out, enq[c])
           /\ \A i, j \in DOMAIN out : i # j => out[i] # out[j]

\* a snapshot and two broadcasts written, two payloads of them in one message
C5_Witness ==
    \E c \in Clients :
        /\ Len(Flatten(written[c])) >= 3
        /\ written[c][1][1].kind = "analytics_snapshot"
        /\ \E i \in DOMAIN written[c] : Len(written[c][i]) >= 2

Discarded ==
    (nextId - 1) - dequeued - Len(broadcast)
        - Cardinality({b \in Broadcasters : bpc[b] = "select"})

\* C7: BroadcastEvent and BroadcastAlert never wait: their select can always
\* run, and when Hub.broadcast is full it returns leaving the queue, the
\* subscriber set and the subscribers' queues as they were.
C7_BroadcastNeverWaits ==
    /\ [](\A b \in Broadcasters : bpc[b] = "select" => ENABLED BroadcastSelect(b))
    /\ [][\A b \in Broadcasters :
            (bpc[b] = "select" /\ bpc'[b] = "idle" /\ Len(broadcast) >= BroadcastCap) =>
                /\ broadcast' = broadcast
                /\ clients' = clients
                /\ send' = send
                /\ closes' = closes]_vars

\* a payload was discarded at a full queue and its caller has returned
C7_Witness ==
    /\ Discarded >= 1
    /\ Len(broadcast) = BroadcastCap
    /\ \A b \in Broadcasters : bpc[b] = "idle"
    /\ \E i \in DOMAIN broadcast : broadcast[i].kind = "alert"
    /\ \E i \in DOMAIN broadcast : broadcast[i].kind = "real_time_event"


-----------------------------------------------------------------------------
(* Failing connections *)

\* a write on c's connection has failed and writePump has returned
WriteFailed(c) == wp[c] = "done" /\ removedBy[c] = ""

\* a read on c's connection has failed and readPump waits on Hub.unregister
ReadFailed(c) == rp[c] = "unregistering"

\* the step is the hub running its unregister case for c
HubUnregisterStep(c) == rp[c] = "unregistering" /\ rp'[c] = "closing"

\* the step is a pump of c finding its read or write failed
FailureStep(c) ==
    \/ rp[c] = "reading" /\ rp'[c] = "unregistering"
    \/ wp[c] # "done" /\ wp'[c] = "done" /\ closes[c] = 0

\* the step leaves d registered or not as it was, with its queue as it was
Untouched(d) ==
    /\ (d \in clients') = (d \in clients)
    /\ closes'[d] = closes[d]
    /\ send'[d] = send[d]
    /\ enq'[d] = enq[d]

\* C24: a subscriber whose connection write or read has failed is eventually
\* out of the active set with its queue closed; neither the failure nor the
\* unregister case it leads to removes another subscriber, closes its queue
\* or touches its queue, and a broadcast still queues the payload for every
\* other subscriber that has room.
C24_FailedSubscriberLeavesAlone ==
    /\ \A c \in Clients :
          (WriteFailed(c) \/ ReadFailed(c)) ~> (c \notin clients /\ closes[c] = 1)
    /\ [][\A c \in Clients :
            /\ (FailureStep(c) \/ HubUnregisterStep(c)) =>
                   \A d \in Clients \ {c} : Untouched(d)
            /\ (HubBroadcastStep /\ (WriteFailed(c) \/ ReadFailed(c))) =>
                   \A d \in clients \ {c} : ~Full(d) =>
                       /\ d \in clients'
                       /\ enq'[d] = Append(enq[d], Head(broadcast))]_vars

\* c1's write failed, the hub ran its unregister case, and c2, still
\* registered, was given a payload after that which c1 was not
C24_Witness ==
    /\ wp["c1"] = "done"
    /\ removedBy["c1"] = "unregister"
    /\ "c1" \notin clients /\ closes["c1"] = 1
    /\ "c2" \in clients /\ closes["c2"] = 0
    /\ enq["c2"] # <<>>
    /\ \A i \in DOMAIN enq["c1"] : enq["c1"][i] # enq["c2"][Len(enq["c2"])]
    /\ enq["c2"][Len(enq["c2"])].kind = "real_time_event"

-----------------------------------------------------------------------------
(* The periodic snapshot *)

\* the ticker fired last while S was registered and marshalled payload k
TickedFor(S, k) ==
    /\ ticked # <<>>
    /\ ticked[1].payload = <<Payload("analytics_update", k)>>
    /\ S \in ticked[1].clients

-----------------------------------------------------------------------------
(* Hub.mu *)

\* a caller of GetClientCount is reading the set
BeingRead == \E g \in Counters : counter.pc[g] = "reading"

\* C28 as stated: the hub never inserts into the subscriber set or removes
\* from it, on register, on unregister or when it drops a subscriber with a
\* full queue during a broadcast, while a caller of GetClientCount reads it.
C28_SetMutationExcludesReaders ==
    [][clients' # clients => ~BeingRead]_vars


-----------------------------------------------------------------------------
(* The active set and the clients' channels *)

\* the hub has run c's register case
Registered(c) == wp[c] # "off"

\* the step puts a payload on c's channel
SendsTo(c) == enq'[c] # enq[c]

\* C29: a client in the active set has an open channel and a client that
\* was removed from it has a closed one, and the hub puts a payload only on
\* the channel of a client that is in the active set and stays in it, its
\* channel open before and after, whatever the order of the register,
\* unregister, broadcast and ticker cases.
C29_HubSendsOnlyToActiveClients ==
    /\ [](\A c \in Clients :
            /\ c \in clients => Registered(c) /\ closes[c] = 0
            /\ (Registered(c) /\ c \notin clients) => closes[c] >= 1)
    /\ [][\A c \in Clients : SendsTo(c) =>
            /\ c \in clients \/ ~Registered(c)
            /\ c \in clients'
            /\ closes[c] = 0 /\ closes'[c] = 0
            /\ enq'[c] = Append(enq[c], enq'[c][Len(enq'[c])])]_vars

\* c1 was dropped at a full channel by a broadcast that reached c2, its
\* unregister ran afterwards, and a later broadcast went to c2 alone
C29_Witness ==
    /\ removedBy["c1"] = "broadcast"
    /\ rp["c1"] = "done"
    /\ "c1" \notin clients /\ closes["c1"] = 1
    /\ "c2" \in clients /\ closes["c2"] = 0
    /\ Len(enq["c2"]) >= 2
    /\ enq["c2"][Len(enq["c2"])].kind = "analytics_update"
    /\ \A i \in DOMAIN enq["c1"] :
          enq["c1"][i].id < enq["c2"][Len(enq["c2"])].id

-----------------------------------------------------------------------------
(* The pumps of a removed client *)

\* writePump has returned and the last message it wrote is the close frame
ClosedCleanly(c) ==
    /\ wp[c] = "done"
    /\ written[c] # <<>>
    /\ written[c][Len(written[c])] = CloseMessage

\* both pumps of c have returned and its connection is closed
Terminated(c) == wp[c] = "done" /\ rp[c] = "done" /\ conn[c] = "closed"

\* C30: once the hub has closed a client's channel both pumps of the client
\* return and its connection is closed; writePump writes the close frame
\* only when it has written every payload the hub queued for the client, in
\* the order of the queue; what it has written when a write fails is the
\* front of that queue; the unregister case that the hub runs for a client
\* it has removed changes nothing in the hub.
C30_PumpsOfRemovedClientTerminate ==
    /\ \A c \in Clients : (closes[c] >= 1) ~> Terminated(c)
    /\ [](\A c \in Clients : ClosedCleanly(c) =>
            /\ closes[c] = 1
            /\ send[c] = <<>>
            /\ Flatten(written[c]) = enq[c]
            /\ conn[c] = "closed")
    /\ [](\A c \in Clients :
            LET out == Flatten(written[c])
            IN Len(out) <= Len(enq[c]) /\ out = SubSeq(enq[c], 1, Len(out)))
    /\ [][\A c \in Clients :
            (HubUnregisterStep(c) /\ closes[c] >= 1) =>
                /\ clients' = clients /\ send' = send
                /\ closes' = closes /\ enq' = enq
                /\ broadcast' = broadcast]_vars

\* the hub dropped c1 with a full channel; writePump wrote the snapshot and
\* the buffered update, then the close frame, and readPump returned after
\* its unregister
C30_Witness ==
    /\ removedBy["c1"] = "broadcast"
    /\ ClosedCleanly("c1")
    /\ Len(enq["c1"]) = SendCap
    /\ Terminated("c1")

-----------------------------------------------------------------------------
(* Properties of the single-caller runs *)

\* the event adds a load-time sample
HasSample(e) == e.Type = PageView /\ IsFloat(e.Metadata, "load_time")

\* the load times of the ingested page views, in ingestion order
Samples ==
    LET sampled == SelectSeq(ingestLog, HasSample)
    IN [i \in 1..Len(sampled) |-> sampled[i].Metadata["load_time"].num]

\* C11: load_times never holds more than 1000 samples and is exactly the
\* most recent min(M, 1000) load times of the ingested page views, in
\* ingestion order; events of other types add none.
C11_LoadTimesBounded ==
    /\ Len(analytics.LoadTimes) <= LoadTimesCap
    /\ analytics.LoadTimes = LastN(Samples, Min(Len(Samples), LoadTimesCap))

\* more than 1000 samples were ingested and the oldest are gone
C11_Witness ==
    /\ Len(Samples) > LoadTimesCap
    /\ Len(analytics.LoadTimes) = LoadTimesCap
    /\ analytics.LoadTimes[1] # Samples[1]
    /\ \E i \in DOMAIN ingestLog : ingestLog[i].Type = Click

\* the step ran a cleanup pass (service.go 82-85)
CleanupRan == analytics'.LastCleanup # analytics.LastCleanup

\* the sessions named by the events of log
SessionsSeen(log) == {log[i].SessionID : i \in DOMAIN log} \ {""}

\* the timestamp of the last event of log that names session s
LastActivity(log, s) ==
    LET last == CHOOSE i \in DOMAIN log :
                    /\ log[i].SessionID = s
                    /\ \A j \in DOMAIN log : log[j].SessionID = s => j <= i
    IN log[last].Timestamp

\* C12: right after a cleanup pass at time T a session is in active_sessions
\* exactly if its last activity is at most 30 minutes before T, and then
\* with that last activity recorded.
C12_CleanupKeepsFreshSessions ==
    [][CleanupRan =>
         LET T == analytics'.LastCleanup
             live == analytics'.SessionsActive
         IN /\ DOMAIN live \subseteq SessionsSeen(ingestLog')
            /\ \A s \in SessionsSeen(ingestLog') :
                  /\ s \in DOMAIN live <=> T - LastActivity(ingestLog', s) <= SessionTTL
                  /\ s \in DOMAIN live => live[s] = LastActivity(ingestLog', s)]_vars

\* a pass found s2 idle for 30 minutes and kept it, s1 idle for 31 and dropped it
C12_Witness ==
    /\ analytics.LastCleanup = now
    /\ "s2" \in DOMAIN analytics.SessionsActive
    /\ now - analytics.SessionsActive["s2"] = SessionTTL
    /\ "s1" \in SessionsSeen(ingestLog)
    /\ "s1" \notin DOMAIN analytics.SessionsActive
    /\ now - LastActivity(ingestLog, "s1") = SessionTTL + 1

\* C13: right after a cleanup pass at time T no hourly bucket starts more
\* than 48 hours before T.
C13_NoBucketOlderThan48h ==
    [][CleanupRan =>
         \A h \in DOMAIN analytics'.HourlyData :
             analytics'.LastCleanup - h <= HourlyKeep]_vars

-----------------------------------------------------------------------------
(* Properties of the consumer loop *)

\* the loop is through with the i-th fetched message
Done(i) == i < consumer.offset \/ consumer.pc \in {"loop", "returned"}

\* the i-th fetched message decoded
Decoded(i) == UnmarshalOK(consumer.fetched[i])

\* C14: CommitMessages is called once for every fetched message, whatever
\* became of it, as the last step before the next fetch, and the handler is
\* never called for a message that was committed or is not the current one.
C14_CommitOncePerMessage ==
    /\ [](\A i \in DOMAIN consumer.fetched :
            /\ consumer.commits[i] <= 1
            /\ Done(i) <=> consumer.commits[i] = 1)
    /\ [][\A i \in DOMAIN consumer.calls :
            consumer'.calls[i] # consumer.calls[i] =>
                i = consumer.offset /\ consumer.commits[i] = 0]_vars

\* three messages committed once each: one undecodable, one handled at the
\* first attempt, one whose handler failed every time
C14_Witness ==
    /\ consumer.pc = "loop"
    /\ consumer.commits = <<1, 1, 1>>
    /\ \E i, j, k \in 1..3 :
          /\ ~Decoded(i)
          /\ consumer.calls[j] = <<TRUE>>
          /\ consumer.calls[k] = <<FALSE, FALSE, FALSE>>

\* C15: for a decoded message the handler runs at least once and at most
\* maxRetries times and not again after a success; after maxRetries failures
\* the loop goes on to the commit, which can always run, and to the next fetch.
C15_HandlerRetriesBounded ==
    /\ \A i \in DOMAIN consumer.fetched : Decoded(i) =>
          LET n == Len(consumer.calls[i])
          IN /\ n <= maxRetries
             /\ \A k \in 1..(n - 1) : ~consumer.calls[i][k]
             /\ (Done(i) \/ (i = consumer.offset /\ consumer.pc = "commit")) =>
                   /\ n >= 1
                   /\ ~consumer.calls[i][n] => n = maxRetries
             /\ (i = consumer.offset /\ consumer.pc = "handle") =>
                   \A k \in 1..n : ~consumer.calls[i][k]
    /\ consumer.pc = "commit" => ENABLED ConsumerCommit
    /\ (consumer.pc = "loop" /\ consumer.offset < MaxMessages) => ENABLED Fetch

\* the handler failed three times for the first message and the loop has
\* fetched the second
C15_Witness ==
    /\ consumer.offset = 2
    /\ consumer.calls[1] = <<FALSE, FALSE, FALSE>>
    /\ consumer.commits[1] = 1
    /\ consumer.calls[2] = <<FALSE, TRUE>>

\* the loop is at a message that did not decode
AtUndecoded == consumer.msg # <<>> /\ ~UnmarshalOK(consumer.msg[1])

\* C16: for a message that does not decode the handler is never called, the
\* store stays as it is from the fetch to the commit, the message is
\* committed and the loop goes on.
C16_UndecodableSkipsHandler ==
    /\ [](\A i \in DOMAIN consumer.fetched : ~Decoded(i) =>
            /\ consumer.calls[i] = <<>>
            /\ Done(i) => consumer.commits[i] = 1)
    /\ [](consumer.pc = "commitUndecoded" => ENABLED ConsumerCommitUndecoded)
    /\ [][(AtUndecoded \/ AtUndecoded') =>
            analytics' = analytics /\ ingestLog' = ingestLog]_vars

\* an undecodable message was committed between two handled ones
C16_Witness ==
    /\ consumer.offset = 3
    /\ Decoded(1) /\ ~Decoded(2) /\ Decoded(3)
    /\ consumer.commits = <<1, 1, 1>>
    /\ consumer.calls[2] = <<>>
    /\ analytics.TotalEvents = 2

-----------------------------------------------------------------------------
(* Properties of ProcessEvent on optional fields and event types *)

\* the step is a whole ProcessEvent call
Ingested == ingestLog' # ingestLog

\* the event of that call
IngestedEvent == ingestLog'[Len(ingestLog')]

\* the visitors recorded for a page: none when the page has no entry
Visitors(a, u) == IF u \in DOMAIN a.PageVisitors THEN a.PageVisitors[u] ELSE {}

\* the pages of the model
Pages == {HomeUrl, AboutUrl}

\* what ProcessEvent leaves alone for an event without user id, referrer or
\* client agent
AbsentFieldsSkipped(e) ==
    /\ e.UserID = "" =>
          /\ analytics'.UniqueUsers = analytics.UniqueUsers
          /\ \A u \in Pages : Visitors(analytics', u) = Visitors(analytics, u)
    /\ e.Referrer.Raw = "" => analytics'.TrafficSources = analytics.TrafficSources
    /\ e.UserAgent = <<>> =>
          /\ analytics'.DeviceTypes =
                IF e.Type = Session /\ IsString(e.Metadata, "device")
                THEN MapInc(analytics.DeviceTypes, e.Metadata["device"].str)
                ELSE analytics.DeviceTypes
          /\ analytics'.BrowserTypes =
                IF e.Type = Session /\ IsString(e.Metadata, "browser")
                THEN MapInc(analytics.BrowserTypes, e.Metadata["browser"].str)
                ELSE analytics.BrowserTypes

\* ProcessEvent has a result for event e in the current store, and counts e
Accepted(e) ==
    ProcessEvent(analytics, e, now).TotalEvents = analytics.TotalEvents + 1

\* C17 as stated: ProcessEvent can be called with every event, and an event
\* without an optional field leaves the structure of that field unchanged:
\* users and page visitors, active sessions, traffic sources, inferred
\* device and browser classes.
C17_AbsentFieldLeavesUnchanged ==
    /\ [](\A e \in FieldEvents(now) : Accepted(e))
    /\ [][Ingested =>
            /\ AbsentFieldsSkipped(IngestedEvent)
            /\ IngestedEvent.SessionID = "" =>
                  analytics'.SessionsActive = analytics.SessionsActive]_vars

\* C17 amended: as stated, except that an event without a session id adds
\* and updates no session, while the cleanup pass of the same call may
\* still remove the sessions that have expired.
C17_AbsentFieldSkipsUpdate ==
    /\ [](\A e \in FieldEvents(now) : Accepted(e))
    /\ [][Ingested =>
            /\ AbsentFieldsSkipped(IngestedEvent)
            /\ IngestedEvent.SessionID = "" =>
                  /\ DOMAIN analytics'.SessionsActive \subseteq DOMAIN analytics.SessionsActive
                  /\ \A s \in DOMAIN analytics'.SessionsActive :
                        analytics'.SessionsActive[s] = analytics.SessionsActive[s]
                  /\ ~CleanupRan =>
                        analytics'.SessionsActive = analytics.SessionsActive]_vars

\* the event without any optional field was ingested into a store that had
\* users, sessions, sources and classes, and left them all in place
C17_Witness ==
    /\ Len(ingestLog) = 2
    /\ ingestLog[1].ID = "f1"
    /\ ingestLog[2].ID = "f2"
    /\ analytics.UniqueUsers = {"u1"}
    /\ DOMAIN analytics.SessionsActive = {"s1"}
    /\ Visitors(analytics, AboutUrl) = {}
    /\ DOMAIN analytics.TrafficSources # {}
    /\ DOMAIN analytics.BrowserTypes = {"Chrome"}

\* the event types of the enum (part_001 20-25)
KnownTypes == {PageView, Click, Session, UserEvent}

\* C18: the keys of events_by_type are members of the closed enum, the
\* known types and custom.
C18_KeysInClosedEnum ==
    DOMAIN analytics.EventsByType \subseteq KnownTypes \cup {"custom"}

-----------------------------------------------------------------------------
(* Properties of CheckAlerts *)

\* the metrics CheckAlerts recognizes, read off the store
MetricOf(a, metric) ==
    CASE metric = "total_events" -> a.TotalEvents
      [] metric = "unique_users" -> Cardinality(a.UniqueUsers)
      [] metric = "active_sessions" -> Cardinality(DOMAIN a.SessionsActive)
      [] metric = "average_load_time" ->
            IF a.LoadTimes = <<>> THEN 0
            ELSE FloatDiv(FloatSum(a.LoadTimes), Len(a.LoadTimes))

Recognized == {"total_events", "unique_users", "active_sessions", "average_load_time"}

\* C19: CheckAlerts returns an alert for an enabled configuration on a
\* recognized metric exactly if the metric of the store satisfies the
\* operator against the threshold: gt strictly greater, lt strictly less,
\* eq equal.
C19_AlertIffConditionHolds ==
    checked # <<>> =>
        LET call == checked[1]
        IN \A i \in DOMAIN call.rules :
              LET rule == call.rules[i]
                  value == MetricOf(call.store, rule.Metric)
                  fired == \E k \in DOMAIN call.out :
                              /\ call.out[k].Message.Name = rule.Name
                              /\ call.out[k].CurrentValue = value
                              /\ call.out[k].Threshold = rule.Threshold
              IN (rule.Enabled /\ rule.Metric \in Recognized
                    /\ rule.Operator \in {"gt", "lt", "eq"}) =>
                     (fired <=> CASE rule.Operator = "gt" -> value > rule.Threshold
                                  [] rule.Operator = "lt" -> value < rule.Threshold
                                  [] rule.Operator = "eq" -> value = rule.Threshold)

\* the gt rule on total_events with threshold 2 stayed silent after two
\* ingests
C19_SilentAtThreshold ==
    /\ checked # <<>>
    /\ checked[1].store.TotalEvents = 2
    /\ \E i \in DOMAIN checked[1].rules : checked[1].rules[i].Name = "many events"
    /\ checked[1].out = <<>>

\* the gt rule on total_events with threshold 2 fired after three ingests
C19_Witness ==
    /\ checked # <<>>
    /\ checked[1].store.TotalEvents = 3
    /\ \E k \in DOMAIN checked[1].out : checked[1].out[k].Message.Name = "many events"

-----------------------------------------------------------------------------
(* Properties of top_pages *)

\* the page views among the first k ingested events
ViewsOf(u, k) ==
    Cardinality({n \in 1..k : ingestLog[n].Type = PageView /\ ingestLog[n].URL = u})

ViewedUrls(k) == {ingestLog[n].URL : n \in {m \in 1..k : ingestLog[m].Type = PageView}}

\* C20: top_pages of a snapshot is sorted by view count in non-increasing
\* order, has min(10, number of distinct page URLs) entries, each with the
\* view count of its page, and no omitted page has a strictly higher view
\* count than an included one.
C20_TopPagesSortedAndCut ==
    \A r \in Readers :
        snap[r] # <<>> =>
            LET s == snap[r][1]
                k == s.TotalEvents
                top == s.TopPages
                included == {top[i].URL : i \in DOMAIN top}
            IN /\ Len(top) = Min(10, Cardinality(ViewedUrls(k)))
               /\ Cardinality(included) = Len(top)
               /\ \A i \in DOMAIN top :
                     /\ top[i].URL \in ViewedUrls(k)
                     /\ top[i].Views = ViewsOf(top[i].URL, k)
               /\ \A i, j \in DOMAIN top : i < j => top[i].Views >= top[j].Views
               /\ \A u \in ViewedUrls(k) \ included :
                     \A i \in DOMAIN top : ViewsOf(u, k) <= top[i].Views

\* a snapshot of more than ten pages lists ten and leaves out a page that
\* ties with the last one listed
C20_Witness ==
    /\ snap["r1"] # <<>>
    /\ LET s == snap["r1"][1]
           top == s.TopPages
       IN /\ Cardinality(ViewedUrls(s.TotalEvents)) > 10
          /\ Len(top) = 10
          /\ \E u \in ViewedUrls(s.TotalEvents) \ {top[i].URL : i \in DOMAIN top} :
                ViewsOf(u, s.TotalEvents) = top[10].Views

-----------------------------------------------------------------------------
(* Properties of unique_users and of the top-pages counts *)

\* the distinct non-empty user ids among the first k ingested events
UsersOf(k) == {ingestLog[n].UserID : n \in 1..k} \ {""}

\* the distinct non-empty user ids among the page views of u in the first k
\* ingested events
VisitorsOf(u, k) ==
    {ingestLog[n].UserID
       : n \in {m \in 1..k : ingestLog[m].Type = PageView /\ ingestLog[m].URL = u}} \ {""}

\* C21: a snapshot's unique_users is the number of distinct non-empty user
\* ids among all the events ingested before it, whatever their type, and
\* each top-pages entry reports as views the number of page_view events
\* ingested for its URL and as unique visitors the number of distinct
\* non-empty user ids among those page_view events.
C21_UsersAndVisitorsCounted ==
    \A r \in Readers :
        snap[r] # <<>> =>
            LET s == snap[r][1]
                k == s.TotalEvents
            IN /\ s.UniqueUsers = Cardinality(UsersOf(k))
               /\ {s.TopPages[i].URL : i \in DOMAIN s.TopPages} = ViewedUrls(k)
               /\ \A i \in DOMAIN s.TopPages :
                     /\ s.TopPages[i].Views = ViewsOf(s.TopPages[i].URL, k)
                     /\ s.TopPages[i].UniqueVisitors
                           = Cardinality(VisitorsOf(s.TopPages[i].URL, k))

\* three ingests, two users; the page viewed by a user and by nobody shows
\* two views and one visitor
C21_Witness ==
    /\ snap["r1"] # <<>>
    /\ snap["r1"][1].TotalEvents = 3
    /\ snap["r1"][1].UniqueUsers = 2
    /\ \E i \in DOMAIN snap["r1"][1].TopPages :
          /\ snap["r1"][1].TopPages[i].Views = 2
          /\ snap["r1"][1].TopPages[i].UniqueVisitors = 1
    /\ \E n \in 1..3 : ingestLog[n].Type = PageView /\ ingestLog[n].UserID = ""
    /\ \E n \in 1..3 : ingestLog[n].Type = Click

-----------------------------------------------------------------------------
(* Frame properties of GetSnapshot *)

-----------------------------------------------------------------------------
(* Frame properties of CheckAlerts *)

\* the names of the configurations a CheckAlerts call fired, in order
FiredNames(call) == [k \in DOMAIN call.out |-> call.out[k].Message.Name]

\* the last two evaluations saw the same store and the same configurations
\* and fired the same configurations
SameFiring(calls) ==
    (Len(calls) = 2 /\ calls[1].store = calls[2].store /\ calls[1].rules = calls[2].rules)
        => FiredNames(calls[1]) = FiredNames(calls[2])

\* C23: an evaluation of the alerts changes neither the store nor the
\* configurations, and two consecutive evaluations with no ingest and no
\* added configuration between them fire exactly the same configurations.
C23_CheckAlertsIsPure ==
    [][checked' # checked =>
          /\ analytics' = analytics
          /\ alerts' = alerts
          /\ SameFiring(checked')]_vars

\* the same rule fired in two evaluations an hour apart with nothing
\* ingested between them
C23_Witness ==
    /\ Len(checked) = 2
    /\ checked[1].store = checked[2].store
    /\ checked[1].rules = checked[2].rules
    /\ checked[1].at >= checked[2].at + Hour
    /\ checked[1].out # <<>>
    /\ FiredNames(checked[1]) = FiredNames(checked[2])

-----------------------------------------------------------------------------
(* Properties of the JSON encoding of events *)

\* the two structs agree on the fields named
SameOn(fields, a, b) == \A i \in DOMAIN fields : a[fields[i].name] = b[fields[i].name]

\* C25: an event record encoded to JSON and decoded again has the same id,
\* type and user id, and a page-view, click or session record decoded as its
\* own variant has the same variant-specific fields; a record the producer
\* published reaches the consumer with the same id, type and user id.
C25_JsonRoundTrip ==
    wire # <<>> =>
        LET w == wire[1]
        IN /\ w.got.ID = w.sent.ID
           /\ w.got.Type = w.sent.Type
           /\ w.got.UserID = w.sent.UserID
           /\ w.into = w.kind => SameOn(VariantFields(w.kind), w.sent, w.got)

\* a page view with a load time and no title went through: the title was
\* left out of the JSON value and the load time was written
C25_Witness ==
    /\ wire # <<>>
    /\ wire[1].kind = "PageViewEvent" /\ wire[1].into = "PageViewEvent"
    /\ wire[1].sent.LoadTime = 2 /\ wire[1].got.LoadTime = 2
    /\ wire[1].sent.PageTitle = ""
    /\ "page_title" \notin DOMAIN wire[1].value
    /\ wire[1].value["load_time"] = [num |-> 2]
    /\ wire[1].got.UserID = "user-123"

-----------------------------------------------------------------------------
(* Properties of the median load time *)

\* the load times of the page views among the first k ingested events, in
\* ingestion order
SamplesUpTo(k) ==
    LET sampled == SelectSeq(SubSeq(ingestLog, 1, k), HasSample)
    IN [i \in 1..Len(sampled) |-> sampled[i].Metadata["load_time"].num]

\* C26 as stated: the median of a snapshot is the middle element of the
\* sorted load times, the lower of the two middle elements when their number
\* is even, and the buffer of the store stays in arrival order.
C26_MedianIsLowerMiddle ==
    /\ analytics.LoadTimes = Samples
    /\ \A r \in Readers :
          snap[r] # <<>> =>
              LET samples == SamplesUpTo(snap[r][1].TotalEvents)
                  n == Len(samples)
                  sorted == SortSeq(samples, <)
              IN n > 0 =>
                    snap[r][1].PerformanceMetrics.MedianLoadTime = sorted[(n + 1) \div 2]


-----------------------------------------------------------------------------
(* The locks *)

\* the callers that are inside ProcessEvent with the store's lock held
InIngest == {w \in Writers : wpc[w] \notin {"idle", "called", "waiting"}}

\* the callers that are inside GetSnapshot with the store's lock read-held
InRender ==
    {r \in Readers : rpc[r] = "rlocked"} \cup {k \in Checkers : svc.pc[k] = "rendering"}

\* C31: a call of ProcessEvent, GetSnapshot, CheckAlerts or AddAlert that
\* has begun returns, whatever the other callers do (each caller is again
\* and again outside its call, so no call lasts for ever and no set of
\* callers waits for each other); at most one caller is
\* inside ProcessEvent, and none is inside GetSnapshot while one is.
C31_CallsReturnAndIngestExcludes ==
    /\ \A w \in Writers : []<>(wpc[w] = "idle")
    /\ \A r \in Readers : []<>(rpc[r] = "idle")
    /\ \A c \in Checkers \cup Adders : []<>(svc.pc[c] = "idle")
    /\ [](Cardinality(InIngest) <= 1 /\ (InIngest # {} => InRender = {}))

\* two callers of GetSnapshot and CheckAlerts render together after an
\* ingest, while a caller of ProcessEvent and a caller of AddAlert wait for
\* them to leave
C31_Witness ==
    /\ Renderers \cup Checkers \subseteq InRender
    /\ Len(hist) >= 2
    /\ \E w \in Writers : wpc[w] = "waiting"
    /\ \E a \in Adders : svc.pc[a] = "waiting"

-----------------------------------------------------------------------------
(* The period of the cleanup *)

\* the sessions and the hours the call has touched or found in the store
SessionsHeld ==
    DOMAIN analytics.SessionsActive
        \cup (IF IngestedEvent.SessionID # "" THEN {IngestedEvent.SessionID} ELSE {})

HoursHeld == DOMAIN analytics.HourlyData \cup {TruncateHour(IngestedEvent.Timestamp)}

\* C32: a call of ProcessEvent runs the cleanup exactly when more than 5
\* minutes have passed since LastCleanup, and then sets LastCleanup to the
\* current time and leaves no session idle for more than 30 minutes and no
\* hour before the cutoff; otherwise LastCleanup stays and every session and
\* hour the store held or the event brought is still there; two values of
\* LastCleanup that follow each other are more than 5 minutes apart.
C32_CleanupOnlyAfterFiveMinutes ==
    [][Ingested =>
         LET elapsed == now - analytics.LastCleanup
             next == analytics'
         IN /\ elapsed > CleanupEvery =>
                  /\ next.LastCleanup = now
                  /\ \A s \in DOMAIN next.SessionsActive :
                        now - next.SessionsActive[s] <= SessionTTL
                  /\ \A h \in DOMAIN next.HourlyData :
                        h >= TruncateHour(now - HourlyKeep)
            /\ elapsed <= CleanupEvery =>
                  /\ next.LastCleanup = analytics.LastCleanup
                  /\ SessionsHeld = DOMAIN next.SessionsActive
                  /\ HoursHeld = DOMAIN next.HourlyData
            /\ next.LastCleanup # analytics.LastCleanup =>
                  next.LastCleanup - analytics.LastCleanup > CleanupEvery]_vars

\* a cleanup has run; exactly 5 minutes after it an event of an idle session
\* and an event of an old hour were ingested, and the session and the hour
\* are in the store
C32_Witness ==
    /\ analytics.LastCleanup > StartClock
    /\ now - analytics.LastCleanup = CleanupEvery
    /\ \E s \in DOMAIN analytics.SessionsActive :
          now - analytics.SessionsActive[s] > SessionTTL
    /\ \E h \in DOMAIN analytics.HourlyData : h < TruncateHour(now - HourlyKeep)
    /\ ingestLog[Len(ingestLog)].Timestamp < now - SessionTTL

-----------------------------------------------------------------------------
(* Session activity *)

\* the step is a call of GetSnapshot by r1
Rendered == snap'["r1"] # snap["r1"]

\* C33: after a call of ProcessEvent with an event that names a session,
\* SessionsActive holds the event's timestamp for the session, whatever
\* timestamp it held before, or the session is gone because the cleanup of
\* that call found the timestamp more than 30 minutes old; a snapshot's
\* ActiveSessions is the number of entries of SessionsActive.
C33_SessionHoldsLastIngestedTimestamp ==
    /\ [][(Ingested /\ IngestedEvent.SessionID # "") =>
            LET e == IngestedEvent
                live == analytics'.SessionsActive
            IN IF e.SessionID \in DOMAIN live
               THEN live[e.SessionID] = e.Timestamp
               ELSE CleanupRan /\ now - e.Timestamp > SessionTTL]_vars
    /\ [][Rendered =>
            snap'["r1"][1].ActiveSessions
                = Cardinality(DOMAIN analytics.SessionsActive)]_vars

\* the last event of session s1 has an earlier timestamp than an event of s1
\* ingested before it; the store holds the earlier timestamp, and the
\* snapshot counts s1 and s2
C33_Witness ==
    /\ \E i \in DOMAIN ingestLog :
          /\ ingestLog[i].SessionID = "s1"
          /\ ingestLog[i].Timestamp > ingestLog[Len(ingestLog)].Timestamp
    /\ ingestLog[Len(ingestLog)].SessionID = "s1"
    /\ "s1" \in DOMAIN analytics.SessionsActive
    /\ analytics.SessionsActive["s1"] = ingestLog[Len(ingestLog)].Timestamp
    /\ snap["r1"] # <<>>
    /\ snap["r1"][1].ActiveSessions = 2
    /\ DOMAIN analytics.SessionsActive = {"s1", "s2"}

-----------------------------------------------------------------------------
(* Browser and device labels *)

\* the rules of processUserAgent, in the order of the source
BrowserRules ==
    <<[words |-> {"chrome"}, label |-> "Chrome"],
      [words |-> {"firefox"}, label |-> "Firefox"],
      [words |-> {"safari"}, label |-> "Safari"],
      [words |-> {"edge"}, label |-> "Edge"]>>

DeviceRules ==
    <<[words |-> {"mobile", "iphone", "android"}, label |-> "Mobile"],
      [words |-> {"tablet", "ipad"}, label |-> "Tablet"]>>

\* the words of an agent string, lower-cased
LowerWords(agent) == {ToLower(agent[i]) : i \in DOMAIN agent}

\* the label of the first rule that finds one of its words, or other
RECURSIVE FirstMatch(_, _, _)
FirstMatch(rules, words, other) ==
    IF rules = <<>> THEN other
    ELSE IF Head(rules).words \cap words # {} THEN Head(rules).label
    ELSE FirstMatch(Tail(rules), words, other)

\* the sum of the counts of a map
RECURSIVE Total(_)
Total(m) ==
    IF DOMAIN m = {} THEN 0
    ELSE LET k == CHOOSE x \in DOMAIN m : TRUE
         IN m[k] + Total([j \in (DOMAIN m) \ {k} |-> m[j]])

\* the event of the call with its agent string taken out
WithoutAgent == [IngestedEvent EXCEPT !.UserAgent = <<>>]

\* C34: a call of ProcessEvent with an event whose agent string is not
\* empty leaves BrowserTypes and DeviceTypes as the call without the agent
\* string would, but for one browser label and one device label raised by
\* 1: the label of the first rule, in the fixed order, that finds its word in
\* the lower-cased string, Other and Desktop when none does.
C34_AgentRaisesFirstMatchingLabels ==
    [][(Ingested /\ IngestedEvent.UserAgent # <<>>) =>
         LET base == ProcessEvent(analytics, WithoutAgent, now)
             words == LowerWords(IngestedEvent.UserAgent)
         IN /\ analytics'.BrowserTypes
                  = MapInc(base.BrowserTypes, FirstMatch(BrowserRules, words, "Other"))
            /\ analytics'.DeviceTypes
                  = MapInc(base.DeviceTypes, FirstMatch(DeviceRules, words, "Desktop"))
            /\ Total(analytics'.BrowserTypes) = Total(base.BrowserTypes) + 1
            /\ Total(analytics'.DeviceTypes) = Total(base.DeviceTypes) + 1]_vars

\* an agent that names safari, chrome and edge counted as Chrome, and an
\* agent that names android and tablet counted as Mobile
C34_Witness ==
    /\ Len(ingestLog) = 2
    /\ ingestLog[1].UserAgent = <<"Mozilla", "Safari", "Chrome", "Edge">>
    /\ ingestLog[2].UserAgent = <<"Mozilla", "Firefox", "Android", "Tablet">>
    /\ \A i \in {1, 2} : ingestLog[i].Type = PageView
    /\ analytics.BrowserTypes = ("Chrome" :> 1) @@ ("Firefox" :> 1)
    /\ analytics.DeviceTypes = ("Desktop" :> 1) @@ ("Mobile" :> 1)

\* the metadata of the event names a device and a browser
NamesDeviceAndBrowser(e) ==
    /\ IsString(e.Metadata, "device") /\ e.Metadata["device"].str # ""
    /\ IsString(e.Metadata, "browser") /\ e.Metadata["browser"].str # ""

\* C35: a session event whose metadata names a device and a browser and
\* whose agent string is not empty raises the metadata's labels by 1 and the
\* labels inferred from the agent by 1, also when they are the same labels,
\* so the sum of DeviceTypes and the sum of BrowserTypes rise by 2.
C35_SessionCountedOnBothPaths ==
    [][(Ingested /\ IngestedEvent.Type = Session
           /\ NamesDeviceAndBrowser(IngestedEvent)
           /\ IngestedEvent.UserAgent # <<>>) =>
         LET e == IngestedEvent
             words == LowerWords(e.UserAgent)
         IN /\ analytics'.DeviceTypes
                  = MapInc(MapInc(analytics.DeviceTypes, e.Metadata["device"].str),
                           FirstMatch(DeviceRules, words, "Desktop"))
            /\ analytics'.BrowserTypes
                  = MapInc(MapInc(analytics.BrowserTypes, e.Metadata["browser"].str),
                           FirstMatch(BrowserRules, words, "Other"))
            /\ Total(analytics'.DeviceTypes) = Total(analytics.DeviceTypes) + 2
            /\ Total(analytics'.BrowserTypes) = Total(analytics.BrowserTypes) + 2]_vars

\* one session event whose metadata and agent agree on Mobile, and on
\* which the metadata says Chrome and the agent Safari
C35_Witness ==
    /\ Len(ingestLog) = 1
    /\ ingestLog[1].Type = Session
    /\ ingestLog[1].UserAgent = <<"Mozilla", "Safari", "Mobile", "iPhone">>
    /\ analytics.DeviceTypes = "Mobile" :> 2
    /\ analytics.BrowserTypes = ("Chrome" :> 1) @@ ("Safari" :> 1)

-----------------------------------------------------------------------------
(* The hourly series *)

\* C36: the hourly series of a snapshot has 24 entries; the last is the
\* hour of the current time, each entry is one hour after the one before
\* it, and each carries the count HourlyData holds for its hour, 0 when it
\* holds none.
C36_HourlySeriesIsLast24Hours ==
    [][Rendered =>
         LET series == snap'["r1"][1].HourlyPageViews
         IN /\ Len(series) = 24
            /\ series[24].Hour = TruncateHour(now)
            /\ \A k \in 1..23 : series[k + 1].Hour = series[k].Hour + Hour
            /\ \A k \in 1..24 :
                  series[k].Events =
                      IF series[k].Hour \in DOMAIN analytics.HourlyData
                      THEN analytics.HourlyData[series[k].Hour]
                      ELSE 0]_vars

\* after the clock has moved into the next hour, a snapshot whose series
\* starts with an event dated 23 hours ago and ends with an event dated now,
\* zeros between them, while the store also holds an hour outside the series
C36_Witness ==
    /\ now > StartClock
    /\ snap["r1"] # <<>>
    /\ LET series == snap["r1"][1].HourlyPageViews
       IN /\ series[24].Hour = TruncateHour(now)
          /\ series[1].Events = 1
          /\ series[24].Events = 1
          /\ \A k \in 2..23 : series[k].Events = 0
          /\ \E h \in DOMAIN analytics.HourlyData : h < series[1].Hour

-----------------------------------------------------------------------------
(* Page visitors and page views *)

\* C37: a page that has a visitor recorded has at least one view counted,
\* and never more visitors than views, before and after every cleanup.
C37_VisitorsNeverExceedViews ==
    \A u \in DOMAIN analytics.PageVisitors :
        analytics.PageVisitors[u] # {} =>
            /\ u \in DOMAIN analytics.PageViews
            /\ analytics.PageViews[u] >= 1
            /\ Cardinality(analytics.PageVisitors[u]) <= analytics.PageViews[u]

\* a cleanup has run; the home page has three views by two visitors
C37_Witness ==
    /\ analytics.LastCleanup > StartClock
    /\ HomeUrl \in DOMAIN analytics.PageViews
    /\ analytics.PageViews[HomeUrl] = 3
    /\ Cardinality(analytics.PageVisitors[HomeUrl]) = 2

-----------------------------------------------------------------------------
(* Configurations outside the normal case *)

\* the operators evaluateAlertCondition knows
Operators == {"gt", "lt", "eq"}

\* the alerts a call returned for the configuration named name
AlertsFor(call, name) ==
    {k \in DOMAIN call.out : call.out[k].Message.Name = name}

\* C38: every call of CheckAlerts returns; it returns no alert for a
\* configuration that is switched off or whose operator is not gt, lt or
\* eq, and for an enabled configuration on a metric it does not recognize
\* it returns an alert exactly if 0 satisfies the operator against the
\* threshold, with 0 as the current value.
C38_CheckAlertsIsTotal ==
    checked # <<>> =>
        LET call == checked[1]
        IN \A i \in DOMAIN call.rules :
              LET rule == call.rules[i]
              IN /\ (~rule.Enabled \/ rule.Operator \notin Operators) =>
                        AlertsFor(call, rule.Name) = {}
                 /\ (rule.Enabled /\ rule.Operator \in Operators
                       /\ rule.Metric \notin Recognized) =>
                        /\ AlertsFor(call, rule.Name) # {}
                              <=> CASE rule.Operator = "gt" -> 0 > rule.Threshold
                                    [] rule.Operator = "lt" -> 0 < rule.Threshold
                                    [] rule.Operator = "eq" -> 0 = rule.Threshold
                        /\ \A k \in AlertsFor(call, rule.Name) :
                              call.out[k].CurrentValue = 0

\* with events in the store, a call on a switched-off configuration, one
\* with operator gte and one on an unknown metric returned the alert of the
\* last only, with value 0
C38_Witness ==
    /\ checked # <<>>
    /\ checked[1].store.TotalEvents >= 1
    /\ {checked[1].rules[i].Name : i \in DOMAIN checked[1].rules}
          = {"switched off", "at least", "no metric, below"}
    /\ Len(checked[1].out) = 1
    /\ checked[1].out[1].Message.Name = "no metric, below"
    /\ checked[1].out[1].CurrentValue = 0

-----------------------------------------------------------------------------
(* The producer's handler *)

\* the positions of the calls of the kind op that the handlers made
CallsOf(op) == {i \in DOMAIN handler.calls : handler.calls[i].op = op}

\* a call of the kind op for request n precedes position i
Preceded(op, n, i) ==
    \E j \in DOMAIN handler.calls :
        j < i /\ handler.calls[j] = Call(op, n)

\* the responses that refuse a request
Refusals == {405, 400, 500}

\* this step answers a request with a refusal
Refused ==
    /\ Len(handler.requests') = Len(handler.requests) + 1
    /\ handler.requests'[Len(handler.requests')].status \in Refusals

\* C39: the store holds exactly the events the handlers ingested and the
\* hub was offered exactly one message per broadcast call; an ingest for a
\* request comes after the publish for it and a broadcast after the ingest,
\* every ingested event is on the broker's topic, and a request that is not
\* a POST, whose body does not decode or whose publish fails is answered
\* 405, 400 or 500 in a step that leaves the store and the hub's broadcast
\* queue as they were, and no call is ever made for it.
C39_PublishThenIngestThenBroadcast ==
    /\ [](/\ Len(ingestLog) = Cardinality(CallsOf("ingest"))
          /\ nextId - 1 = Cardinality(CallsOf("broadcast"))
          /\ Len(handler.topic) = Cardinality(CallsOf("publish"))
          /\ \A i \in DOMAIN handler.calls :
                /\ handler.calls[i].op = "ingest" =>
                      Preceded("publish", handler.calls[i].n, i)
                /\ handler.calls[i].op = "broadcast" =>
                      Preceded("ingest", handler.calls[i].n, i)
          /\ \A k \in DOMAIN ingestLog :
                \E j \in DOMAIN handler.topic : handler.topic[j].Value = ingestLog[k]
          /\ \A k \in DOMAIN handler.requests :
                LET a == handler.requests[k]
                IN /\ (a.request.Method # "POST" \/ a.request.Body = Malformed)
                         => a.status \in Refusals
                   /\ a.status \in Refusals =>
                         \A i \in DOMAIN handler.calls : handler.calls[i].n # a.n)
    /\ [][Refused => /\ analytics' = analytics
                     /\ ingestLog' = ingestLog
                     /\ broadcast' = broadcast
                     /\ nextId' = nextId
                     /\ handler.topic' = handler.topic]_vars

\* a GET, a body that is no JSON and a failed publish were refused, a
\* fourth request was accepted: its event is on the topic and in the store
\* and its message on the hub's queue
C39_Witness ==
    /\ {handler.requests[k].status : k \in DOMAIN handler.requests}
          = {405, 400, 500, 202}
    /\ \A h \in Handlers : handler.pc[h] = "idle"
    /\ Len(handler.calls) = 3
    /\ Len(handler.topic) = 1
    /\ analytics.TotalEvents = 1
    /\ Len(ingestLog) = 1 /\ ingestLog[1].ID = handler.topic[1].Key
    /\ ingestLog[1].ID = NewUUID(handler.calls[1].n) /\ ingestLog[1].Timestamp = now
    /\ broadcast = <<Payload("real_time_event", 1)>>

-----------------------------------------------------------------------------
(* The consumer's shutdown *)

\* C40: once the context is cancelled, whatever ConsumeEvents was doing, the
\* error it returns equals context.Canceled and main takes the branch that
\* logs "Consumer stopped gracefully", never the one that calls log.Fatalf.
C40_CancelledConsumerStopsGracefully ==
    /\ (consumer.pc = "returned" /\ consumer.ctx = "cancelled") =>
          Equal(consumer.err[1], Canceled)
    /\ consumer.exit # "fatal"

\* the cancellation that the select at the top of the loop sees does end in
\* the graceful branch
ShutdownSeenBySelect ==
    consumer.exit = "stopped gracefully" /\ consumer.offset >= 1

\* what a main that compared with errors.Is would find
ReturnedErrorWrapsCancellation ==
    consumer.pc = "returned" => Is(consumer.err[1], Canceled)
=============================================================================
